---------------------------- MODULE Spec2Model ----------------------------
(***************************************************************************)
(* A model of the robot simulator's real-time core (RobotScene.tsx): the   *)
(* per-frame motion integrator, the collision resolver, the dust           *)
(* particles, the LCD face renderer and the animation loop.                *)
(*                                                                         *)
(* Numbers.  The program computes in IEEE doubles; the model computes in   *)
(* fixed point.  Lengths are millimetres, angles milliradians, linear and  *)
(* angular velocities mm/s and mrad/s, times milliseconds.  A product of   *)
(* two fixed-point numbers is rounded to the nearest unit (RoundDiv), as a *)
(* double product is rounded to the nearest representable value.           *)
(***************************************************************************)
EXTENDS Integers, Sequences, FiniteSets, TLC

VARIABLES
    collidableObjects,  \* sceneRef.current.collidableObjects
    proposed,           \* the (newX, newZ) last handed to resolveCollisions
    resolved,           \* what resolveCollisions returned for it
    state,              \* robotStateRef.current
    actions,            \* actionsRef.current
    idle,               \* idleStateRef.current
    graph,              \* scene-graph transforms written by the loop
    dustParticles,      \* sceneRef.current.dustParticles
    speedReport,        \* last (speed, state) handed to onSpeedChange
    expression,         \* expressionRef.current
    faceColor,          \* faceColorRef.current
    displayText,        \* displayTextRef.current
    displayTextTimeout, \* the pending display-text timer: its due time, or NoTimer
    faceCtx,            \* drawing state kept by the face canvas's 2D context
    faceRaster,         \* what the face canvas shows
    lastTime,           \* closure variables of the scene effect
    lastPovRenderTime,
    lastFaceDrawTime,
    frame,              \* the tick that ran last: its time, delta and stages
    now,                \* the browser's clock
    mounted,            \* the scene effect has run and its cleanup has not
    rafPending,         \* an animation frame is requested for animate
    listeners,          \* the window's keydown/keyup/resize listeners are on
    ticks,              \* animation frames delivered since the initial state
    events,             \* input events delivered since the initial state
    document,           \* the ids of the camera canvases the page has in the DOM
    povCtx,             \* closure constants of the scene effect: the 2D contexts
    secCamCtx,          \*   it looked up when it ran (FALSE: undefined)
    povCanvas,          \* what the canvas 'robot-pov-canvas' shows
    secCamCanvas,       \* what the canvas 'security-cam-canvas' shows
    isAnimating,        \* isAnimatingRef.current
    scripts,            \* the scripted animations suspended at an await
    finished,           \* the scripted animation that returned last
    shown,              \* the last call of showTextOnFace: text, duration, time
    refusals,           \* calls of scripted animations turned away so far
    visionResponse,     \* the page's visionResponse state
    visionLoading,      \* the page's visionLoading state
    vision,             \* handleWhatDoYouSee suspended at its await
    driven,             \* the movement call last made through robotRef
    isSpeaking,         \* the page's isSpeaking state
    speech,             \* where the last speak() attempt stands
    commandTimeout      \* commandTimeoutRef.current and whether its timer is set

robotVars == <<state, idle, graph, dustParticles, speedReport, proposed, resolved>>

faceVars == <<expression, faceColor, displayText, displayTextTimeout, faceCtx, faceRaster>>

loopVars == <<lastTime, lastPovRenderTime, lastFaceDrawTime, frame, now>>

cameraVars == <<document, povCtx, secCamCtx, povCanvas, secCamCanvas>>

scriptVars == <<isAnimating, scripts, finished, shown, refusals>>

pageVars == <<visionResponse, visionLoading, vision, driven, isSpeaking, speech,
              commandTimeout>>

vars == <<collidableObjects, robotVars, actions, faceVars, loopVars,
          mounted, rafPending, listeners, ticks, events, cameraVars, scriptVars,
          pageVars>>

-----------------------------------------------------------------------------
(* Arithmetic helpers                                                      *)

Milli == 10 * 10 * 10

Abs(n) == IF n < 0 THEN -n ELSE n

Sign(n) == IF n > 0 THEN 1 ELSE IF n < 0 THEN -1 ELSE 0

Min(a, b) == IF a < b THEN a ELSE b

Max(a, b) == IF a > b THEN a ELSE b

\* n / d rounded to the nearest integer, halves away from zero (d > 0)
RoundDiv(n, d) == IF n >= 0 THEN (2 * n + d) \div (2 * d)
                            ELSE -((2 * (-n) + d) \div (2 * d))

RECURSIVE SqrtFloor(_, _, _)
SqrtFloor(n, lo, hi) ==
    IF lo >= hi THEN lo
    ELSE LET mid == (lo + hi + 1) \div 2
         IN IF mid * mid <= n THEN SqrtFloor(n, mid, hi)
                              ELSE SqrtFloor(n, lo, mid - 1)

\* Math.sqrt on a squared length, to the nearest unit
Sqrt(n) == LET f == SqrtFloor(n, 0, 46340)
           IN IF n - f * f > f THEN f + 1 ELSE f

-----------------------------------------------------------------------------
(* Collision geometry                                                      *)

ROBOT_RADIUS == 500

COLLISION_PADDING == 100

\* the registry built by the scene effect, in registration order
SceneObjects == <<
    [type |-> "wall"], [type |-> "wall"], [type |-> "wall"],
    [type |-> "shelf",   radius |-> 1200, x |-> -6000, z |-> -8000],
    [type |-> "shelf",   radius |-> 1200, x |-> -2000, z |-> -8000],
    [type |-> "shelf",   radius |-> 1200, x |->  2000, z |-> -8000],
    [type |-> "shelf",   radius |-> 1200, x |->  6000, z |-> -8000],
    [type |-> "table",   radius |-> 1300, x |-> -7000, z |-> -3000],
    [type |-> "box",     radius |->  600, x |->  7000, z |-> -6000],
    [type |-> "box",     radius |->  600, x |->  7800, z |-> -6000],
    [type |-> "box",     radius |->  800, x |->  7000, z |->  4000],
    [type |-> "barrel",  radius |->  500, x |-> -8000, z |->  2000],
    [type |-> "barrel",  radius |->  500, x |-> -8600, z |->  2500],
    [type |-> "station", radius |->  800, x |->  5000, z |->  4000],
    [type |-> "cone",    radius |->  300, x |->  3000, z |->  2000],
    [type |-> "cone",    radius |->  300, x |->  3500, z |->  1500] >>

\* a clamp that forgets the inset by the robot's radius and padding
checkWallCollisionNoInset(newX, newZ) ==
    [x |-> Max(-9000, Min(9000, newX)),
     z |-> Max(-9000, Min(10000, newZ))]

checkWallCollision(newX, newZ) ==
    LET r    == ROBOT_RADIUS + COLLISION_PADDING
        minX == -9000 + r
        maxX == 9000 - r
        minZ == -9000 + r
        maxZ == 10000
    IN [x |-> Max(minX, Min(maxX, newX)),
        z |-> Max(minZ, Min(maxZ, newZ))]

\* a push of half the penetration depth
PushOutHalfway(obj, newX, newZ, res) ==
    IF obj.type = "wall" THEN res
    ELSE LET dx      == newX - obj.x
             dz      == newZ - obj.z
             d2      == dx * dx + dz * dz
             minDist == ROBOT_RADIUS + COLLISION_PADDING + obj.radius
         IN IF d2 < minDist * minDist /\ d2 > 1
            THEN LET distance == Sqrt(d2 * 256)
                     pushDist == (16 * minDist - distance) \div 2
                 IN [x |-> res.x + RoundDiv(dx * pushDist, distance),
                     z |-> res.z + RoundDiv(dz * pushDist, distance),
                     collision |-> TRUE]
            ELSE res

\* a loop body that answers a point on the centre with a push along x
PushOutFromCentre(obj, newX, newZ, res) ==
    IF obj.type = "wall" THEN res
    ELSE LET dx      == newX - obj.x
             dz      == newZ - obj.z
             d2      == dx * dx + dz * dz
             minDist == ROBOT_RADIUS + COLLISION_PADDING + obj.radius
         IN IF d2 < minDist * minDist
            THEN IF d2 > 1
                 THEN LET distance == Sqrt(d2 * 256)
                          pushDist == 16 * minDist - distance
                      IN [x |-> res.x + RoundDiv(dx * pushDist, distance),
                          z |-> res.z + RoundDiv(dz * pushDist, distance),
                          collision |-> TRUE]
                 ELSE [x |-> res.x + minDist, z |-> res.z, collision |-> TRUE]
            ELSE res

\* one iteration of the loop body of checkObjectCollision: obj is tested
\* against the point handed to the function, the push is added to res
\* (the distance is kept in sixteenths of a unit)
PushOut(obj, newX, newZ, res) ==
    IF obj.type = "wall" THEN res
    ELSE LET robotR  == ROBOT_RADIUS + COLLISION_PADDING
             dx      == newX - obj.x
             dz      == newZ - obj.z
             d2      == dx * dx + dz * dz
             minDist == robotR + obj.radius
         IN IF d2 < minDist * minDist /\ d2 > 1
            THEN LET distance == Sqrt(d2 * 256)
                     pushDist == 16 * minDist - distance
                 IN [x |-> res.x + RoundDiv(dx * pushDist, distance),
                     z |-> res.z + RoundDiv(dz * pushDist, distance),
                     collision |-> TRUE]
            ELSE res

RECURSIVE ObjectLoop(_, _, _, _, _)
ObjectLoop(objs, i, newX, newZ, res) ==
    IF i > Len(objs) THEN res
    ELSE ObjectLoop(objs, i + 1, newX, newZ, PushOut(objs[i], newX, newZ, res))

checkObjectCollision(objs, newX, newZ) ==
    ObjectLoop(objs, 1, newX, newZ, [x |-> newX, z |-> newZ, collision |-> FALSE])

\* a resolver whose flag reports the object pass only
resolveCollisionsObjectFlag(objs, newX, newZ) ==
    LET objResult  == checkObjectCollision(objs, newX, newZ)
        wallResult == checkWallCollision(objResult.x, objResult.z)
    IN [x |-> wallResult.x, z |-> wallResult.z, collision |-> objResult.collision]

resolveCollisions(objs, newX, newZ) ==
    LET objResult     == checkObjectCollision(objs, newX, newZ)
        wallResult    == checkWallCollision(objResult.x, objResult.z)
        wallCollision == wallResult.x # objResult.x \/ wallResult.z # objResult.z
    IN [x |-> wallResult.x,
        z |-> wallResult.z,
        collision |-> objResult.collision \/ wallCollision]

-----------------------------------------------------------------------------
(* Fixed-point products and trigonometry                                   *)

\* a * b and a / b of two fixed-point numbers
Mul(a, b) == RoundDiv(a * b, Milli)

Div(a, b) == RoundDiv(a * Milli, b)

\* Math.sin of an angle in mrad, in thousandths (Bhaskara's rational
\* approximation 16p / (5 pi^2 - 4p), p = x (pi - x), on each half turn)
SinMilli(theta) ==
    LET t    == theta % 6283
        x    == IF t <= 3142 THEN t ELSE t - 3142
        p    == x * (3142 - x)
        half == RoundDiv(2000 * (p \div 8), (12337006 - p) \div 16)
    IN IF t <= 3142 THEN half ELSE -half

CosMilli(theta) == SinMilli(theta + 1571)

-----------------------------------------------------------------------------
(* Motion integrator                                                       *)

PHYSICS == [
    maxSpeed            |-> 2200,
    acceleration        |-> 4000,
    deceleration        |-> 5000,
    friction            |-> 3000,
    maxTurnSpeed        |-> 2200,
    turnAccel           |-> 6000,
    turnFriction        |-> 8000,
    headTurnSpeed       |-> 2500,
    headFriction        |-> 6000,
    headMaxRotation     |-> 1200,
    tiltAmount          |-> 80,
    leanAmount          |-> 60,
    tiltSmoothing       |-> 8000,
    leanSmoothing       |-> 10000,
    suspensionStiffness |-> 80000,
    suspensionDamping   |-> 8000,
    bumpForce           |-> 15,
    wheelRadius         |-> 300 ]

\* robotStateRef as the component constructs it
InitialRobotState == [
    x |-> 0, z |-> 0, rotation |-> 0,
    velocity |-> 0, angularVelocity |-> 0,
    headRotY |-> 0, headAngularVel |-> 0,
    wheelRotation |-> 0, bodyTilt |-> 0, bodyLean |-> 0,
    suspensionOffset |-> 0, suspensionVelocity |-> 0 ]

\* actionsRef as the component constructs it
NoActions == [
    forward |-> FALSE, backward |-> FALSE,
    turnLeft |-> FALSE, turnRight |-> FALSE,
    headLeft |-> FALSE, headRight |-> FALSE ]

ActionNames == {"forward", "backward", "turnLeft", "turnRight", "headLeft", "headRight"}

\* target linear velocity from the movement flags (backward wins)
TargetVelocity(a) ==
    IF a.backward THEN -Mul(PHYSICS.maxSpeed, 600)
    ELSE IF a.forward THEN PHYSICS.maxSpeed
    ELSE 0

\* the friction branch: no movement flag is held
Coast(v, delta) ==
    IF Abs(v) > 10 THEN v - Sign(v) * Mul(PHYSICS.friction, delta)
    ELSE 0

\* linear velocity after one step without the clamp to the target
NextVelocityUnclamped(v, a, delta) ==
    LET targetVelocity == TargetVelocity(a)
    IN IF targetVelocity # 0
       THEN LET accel == IF targetVelocity > v THEN PHYSICS.acceleration
                                               ELSE PHYSICS.deceleration
            IN v + Sign(targetVelocity - v) * Mul(accel, delta)
       ELSE Coast(v, delta)

\* linear velocity after one step
NextVelocity(v, a, delta) ==
    LET targetVelocity == TargetVelocity(a)
    IN IF targetVelocity # 0
       THEN LET accel == IF targetVelocity > v THEN PHYSICS.acceleration
                                               ELSE PHYSICS.deceleration
                v1    == v + Sign(targetVelocity - v) * Mul(accel, delta)
            IN IF Abs(v1) > Abs(targetVelocity) THEN targetVelocity ELSE v1
       ELSE Coast(v, delta)

\* angular velocity after one step, given the linear velocity just computed
NextAngularVelocity(w, v, a, delta) ==
    LET raw == IF a.turnRight THEN -PHYSICS.maxTurnSpeed
               ELSE IF a.turnLeft THEN PHYSICS.maxTurnSpeed
               ELSE 0
        speedFactor      == Milli - Mul(Div(Abs(v), PHYSICS.maxSpeed), 300)
        targetAngularVel == Mul(raw, speedFactor)
    IN IF targetAngularVel # 0
       THEN w + Mul(Mul(targetAngularVel - w, PHYSICS.turnAccel), delta)
       ELSE IF Abs(w) > 10
            THEN Mul(w, Milli - Mul(PHYSICS.turnFriction, delta))
            ELSE 0

\* head angular velocity after one step
NextHeadAngularVel(h, a, delta) ==
    LET targetHeadVel == IF a.headRight THEN -PHYSICS.headTurnSpeed
                         ELSE IF a.headLeft THEN PHYSICS.headTurnSpeed
                         ELSE 0
    IN IF targetHeadVel # 0
       THEN h + Mul(Mul(targetHeadVel - h, PHYSICS.headFriction), delta)
       ELSE Mul(h, Milli - Mul(PHYSICS.headFriction, delta))

\* a report that never tells reversing from moving
SpeedReportForwardOnly(s) ==
    LET isMoving    == Abs(s.velocity) > 100
        isTurning   == Abs(s.angularVelocity) > 300
    IN [speed |-> Div(Abs(s.velocity), PHYSICS.maxSpeed) \div 10,
        label |-> IF isMoving /\ isTurning THEN "Moving + Turn"
                  ELSE IF isMoving THEN "Moving"
                  ELSE IF isTurning THEN "Turning"
                  ELSE "Idle"]

\* speed percentage and state label handed to onSpeedChange
SpeedReport(s) ==
    LET isMoving    == Abs(s.velocity) > 100
        isTurning   == Abs(s.angularVelocity) > 300
        isReversing == s.velocity < -100
    IN [speed |-> Div(Abs(s.velocity), PHYSICS.maxSpeed) \div 10,
        label |-> IF isMoving /\ isTurning
                  THEN (IF isReversing THEN "Reversing + Turn" ELSE "Moving + Turn")
                  ELSE IF isMoving
                  THEN (IF isReversing THEN "Reversing" ELSE "Moving")
                  ELSE IF isTurning THEN "Turning"
                  ELSE "Idle"]

\* the first half of updateMovement: velocities, head yaw, heading and the
\* point proposed to the resolver
Kinematics(s, a, delta) ==
    LET P == PHYSICS
        velocity       == NextVelocity(s.velocity, a, delta)
        angularVel     == NextAngularVelocity(s.angularVelocity, velocity, a, delta)
        headAngularVel == NextHeadAngularVel(s.headAngularVel, a, delta)
        rotation       == s.rotation + Mul(angularVel, delta)
        moveDistance   == Mul(velocity, delta)
    IN [velocity       |-> velocity,
        angularVel     |-> angularVel,
        headAngularVel |-> headAngularVel,
        headRotY       |-> Max(-P.headMaxRotation,
                               Min(P.headMaxRotation,
                                   s.headRotY + Mul(headAngularVel, delta))),
        rotation       |-> rotation,
        moveDistance   |-> moveDistance,
        proposedX      |-> s.x + Mul(SinMilli(rotation), moveDistance),
        proposedZ      |-> s.z + Mul(CosMilli(rotation), moveDistance)]

\* the second half of updateMovement, from the resolver's answer res on:
\* collision response, wheels, tilt, lean and suspension
Dynamics(s, a, delta, k, res) ==
    LET P == PHYSICS
        targetVelocity == TargetVelocity(a)
        velocity2      == IF res.collision THEN Mul(k.velocity, 500) ELSE k.velocity
        susp1          == IF res.collision
                          THEN s.suspensionVelocity - 20 * Sign(velocity2)
                          ELSE s.suspensionVelocity
        accelForce     == Mul(targetVelocity - velocity2, 500)
        targetTilt     == -Mul(accelForce, P.tiltAmount)
        bodyTilt       == s.bodyTilt + Mul(Mul(targetTilt - s.bodyTilt, P.tiltSmoothing), delta)
        targetLean     == Mul(Mul(-k.angularVel, P.leanAmount),
                              Max(300, Div(Abs(velocity2), P.maxSpeed)))
        bodyLean       == s.bodyLean + Mul(Mul(targetLean - s.bodyLean, P.leanSmoothing), delta)
        susp2          == IF Abs(targetVelocity - velocity2) > 500
                          THEN susp1 - P.bumpForce * Sign(targetVelocity - velocity2)
                          ELSE susp1
        springForce    == -Mul(s.suspensionOffset, P.suspensionStiffness)
        dampingForce   == -Mul(susp2, P.suspensionDamping)
        susp3          == susp2 + Mul(springForce + dampingForce, delta)
    IN [x |-> res.x, z |-> res.z, rotation |-> k.rotation,
        velocity |-> velocity2, angularVelocity |-> k.angularVel,
        headRotY |-> k.headRotY, headAngularVel |-> k.headAngularVel,
        wheelRotation |-> s.wheelRotation + Div(k.moveDistance, P.wheelRadius),
        bodyTilt |-> bodyTilt, bodyLean |-> bodyLean,
        suspensionOffset |-> s.suspensionOffset + Mul(susp3, delta),
        suspensionVelocity |-> susp3]

\* updateMovement(delta): the new robotStateRef, the point proposed to the
\* resolver, what the resolver answered and the report to onSpeedChange
\* (k, res and new are each computed once and then named)
updateMovement(s, a, objs, delta) ==
    CHOOSE move \in UNION UNION {
        { { [state    |-> new,
             proposed |-> [x |-> k.proposedX, z |-> k.proposedZ],
             resolved |-> res,
             report   |-> SpeedReport(new)] :
                new \in {Dynamics(s, a, delta, k, res)} } :
            res \in {resolveCollisions(objs, k.proposedX, k.proposedZ)} } :
        k \in {Kinematics(s, a, delta)} } : TRUE

-----------------------------------------------------------------------------
(* Idle animator                                                           *)

InitialIdleState == [
    headLookTarget |-> 0, headLookCurrent |-> 0, nextLookTime |-> 3000,
    breathPhase |-> 0, attentionPhase |-> 0, isLooking |-> FALSE ]

\* headGroup.rotation.y, headGroup.rotation.x, body.position.y,
\* headGroup.position.y and the colour of the camera LED
InitialGraph == [headRotationY |-> 0, headRotationX |-> 0, bodyY |-> 800,
                 headY |-> 1850, cameraLed |-> "00ff00"]

\* the transforms updateMovement writes at its end (the other transforms it
\* writes are copies of fields of the robot state)
MovementGraph(g, s) ==
    [g EXCEPT !.headRotationY = s.headRotY, !.bodyY = 800 + s.suspensionOffset]

\* Math.random() draws of the idle animator: (Math.random() - 0.5) * 1.0 and
\* Math.random() * 4000
LookTargets == {-500, 0, 499}

LookDelays == {0, 3999}

\* updateIdleAnimations(currentTime, delta): the new idleStateRef and graph
updateIdleAnimations(i, g, s, a, currentTime, delta, lookTarget, lookDelay) ==
    LET isMoving == Abs(s.velocity) > 100 \/ Abs(s.angularVelocity) > 300
        isUserControllingHead == a.headLeft \/ a.headRight
        active == ~isMoving /\ ~isUserControllingHead
        pick   == active /\ currentTime > i.nextLookTime
        i1 == IF pick
              THEN [i EXCEPT !.headLookTarget = lookTarget,
                             !.nextLookTime = currentTime + 2000 + lookDelay,
                             !.isLooking = TRUE]
              ELSE i
        cur == IF i1.isLooking
               THEN i1.headLookCurrent
                    + Mul(Mul(i1.headLookTarget - i1.headLookCurrent, 2000), delta)
               ELSE i1.headLookCurrent + Mul(Mul(0 - i1.headLookCurrent, 1000), delta)
        i2 == IF active
              THEN [i1 EXCEPT !.headLookCurrent = cur,
                              !.isLooking = i1.isLooking /\ ~(Abs(i1.headLookTarget - cur) < 10)]
              ELSE i1
        i3 == [i2 EXCEPT !.breathPhase = i.breathPhase + Mul(delta, 1500),
                         !.attentionPhase = i.attentionPhase + Mul(delta, 800)]
    IN [idle  |-> i3,
        graph |-> [g EXCEPT
                   !.headRotationY = IF active THEN s.headRotY + i3.headLookCurrent
                                               ELSE g.headRotationY,
                   !.headRotationX = IF ~isMoving THEN Mul(SinMilli(i3.attentionPhase), 10)
                                                  ELSE g.headRotationX,
                   !.bodyY = 800 + s.suspensionOffset + Mul(SinMilli(i3.breathPhase), 3)]]

-----------------------------------------------------------------------------
(* Dust particles: each is its age and its lifetime (mesh position,        *)
(* velocity, opacity and scale are functions of these and of random draws) *)

DUST_CAP == 50

\* Math.random() draws of spawnDustParticle: maxLife = 0.8 + Math.random() * 0.4
MaxLifeDraws == {800, 1199}

\* a spawn that ignores the cap
spawnDustParticleUncapped(dust, maxLife) ==
    Append(dust, [life |-> 0, maxLife |-> maxLife])

spawnDustParticle(dust, maxLife) ==
    IF Len(dust) >= DUST_CAP THEN dust
    ELSE Append(dust, [life |-> 0, maxLife |-> maxLife])

\* the ageing loop: every particle ages by delta, the expired ones are spliced out
AgeDust(dust, delta) ==
    LET aged == [k \in 1..Len(dust) |-> [dust[k] EXCEPT !.life = @ + delta]]
    IN SelectSeq(aged, LAMBDA p : ~(p.life >= p.maxLife))

\* whether Math.random() < speed * 0.3 may come out true
MaySpawn(s) == Abs(s.velocity) > 500

\* updateDustParticles(delta, currentTime)
updateDustParticles(dust, s, delta, spawn, maxLife) ==
    AgeDust(IF MaySpawn(s) /\ spawn THEN spawnDustParticle(dust, maxLife) ELSE dust,
            delta)

-----------------------------------------------------------------------------
(* LCD face renderer                                                       *)

Expressions == {"neutral", "happy", "thinking", "surprised", "love", "loading",
                "sad", "angry", "wink", "excited", "sleepy", "confused"}

NoText == "null"

NoTimer == -1

\* the words of a display text, each with its number of characters
TextWords(text) ==
    CASE text = "Hello!"            -> <<6>>
      [] text = "Wheee!"            -> <<6>>
      [] text = "Saved!"            -> <<6>>
      [] text = "Hello friend!"     -> <<5, 7>>
      [] text = "Hi there!"         -> <<2, 6>>
      [] text = "(camera)"          -> <<1>>
      [] text = "Nice to meet you!" -> <<4, 2, 4, 4>>
      [] OTHER                      -> <<>>

\* measureText(line).width for a line of n characters in bold 28px
CharWidth == 4 * 4

MeasureText(n) == n * CharWidth

\* the word-wrap loop: lines as character counts, cur the current line
RECURSIVE WrapWords(_, _, _, _, _)
WrapWords(words, k, lines, cur, w) ==
    IF k > Len(words) THEN Append(lines, cur)
    ELSE LET testLine == cur + (IF cur > 0 THEN 1 ELSE 0) + words[k]
         IN IF MeasureText(testLine) > w - 40
            THEN WrapWords(words, k + 1, Append(lines, cur), words[k], w)
            ELSE WrapWords(words, k + 1, lines, testLine, w)

\* a fresh 2D context, with the settings drawInitialFace leaves in it
InitialFaceCtx == [
    font |-> "10px sans-serif", textAlign |-> "start", textBaseline |-> "alphabetic",
    lineWidth |-> 3, fillStyle |-> "#00ffff", globalAlpha |-> 1000 ]

\* expressions whose eyes are scaled by blinkScale
Blinking == {"neutral", "thinking", "sad", "angry", "wink", "confused"}

\* expressions that draw glyphs with fillText
Glyphed == {"sleepy", "confused"}

\* line width and font an expression's routine leaves in the context
LineWidthAfter(e) ==
    CASE e \in {"happy", "surprised", "sad", "wink", "excited", "confused"} -> 4
      [] e = "angry" -> 5
      [] e = "sleepy" -> 6
      [] OTHER -> 3

FontAfter(e, font) ==
    CASE e = "sleepy" -> "bold 10px Inter, sans-serif"
      [] e = "confused" -> "bold 24px Inter, sans-serif"
      [] OTHER -> font

\* drawFaceLocal(time): what it paints and the context it leaves behind
drawFaceLocal(ctx, e, color, text, time) ==
    LET w == 256
        ctx1 == [ctx EXCEPT !.fillStyle = color, !.lineWidth = 3]
    IN IF text # NoText /\ text # ""
       THEN LET ctx2 == [ctx1 EXCEPT !.font = "bold 28px Inter, sans-serif",
                                     !.textAlign = "center",
                                     !.textBaseline = "middle"]
            IN [ctx    |-> ctx2,
                raster |-> [kind |-> "text", color |-> color, text |-> text,
                            lines |-> WrapWords(TextWords(text), 1, <<>>, 0, w),
                            shape |-> "none", blinkScale |-> 1000,
                            glyphAlign |-> ctx2.textAlign,
                            glyphBaseline |-> ctx2.textBaseline,
                            dotPhase |-> 0]]
       ELSE LET blinkCycle == SinMilli(time * 3)
                blinkScale == IF blinkCycle > 950 THEN 100 ELSE 1000
            IN [ctx    |-> [ctx1 EXCEPT !.lineWidth = LineWidthAfter(e),
                                        !.font = FontAfter(e, ctx1.font)],
                raster |-> [kind |-> "face", color |-> color, text |-> NoText,
                            lines |-> <<>>,
                            shape |-> IF e \in Expressions THEN e ELSE "none",
                            blinkScale |-> IF e \in Blinking THEN blinkScale ELSE 1000,
                            glyphAlign |-> IF e \in Glyphed THEN ctx1.textAlign ELSE "none",
                            glyphBaseline |-> IF e \in Glyphed THEN ctx1.textBaseline
                                                               ELSE "none",
                            dotPhase |-> IF e = "loading" THEN (time * 5) % 6283 ELSE 0]]

\* the face drawInitialFace paints during scene construction
InitialFaceRaster == [
    kind |-> "face", color |-> "#00ffff", text |-> NoText, lines |-> <<>>,
    shape |-> "neutral", blinkScale |-> 1000,
    glyphAlign |-> "none", glyphBaseline |-> "none", dotPhase |-> 0 ]

-----------------------------------------------------------------------------
(* Camera capture: a canvas is its 360 rows of pixels.  A row is the       *)
(* capture it was copied from (the time of that tick), the row of the      *)
(* render target it was copied from, and what was painted over it since.   *)
(* The loops treat all rows alike; the model follows the rows at the top,  *)
(* the middle and the bottom of the image.                                 *)

Canvases == {"robot-pov-canvas", "security-cam-canvas"}

CaptureHeight == 360

Rows == {0, 1, 2, 3, 179, 180, 356, 357, 358, 359}

NoView == [x |-> 0, y |-> 0, z |-> 0, heading |-> 0]

\* a canvas nothing was drawn on
BlankCanvas ==
    [view |-> NoView,
     rows |-> [y \in Rows |-> [at |-> -1, src |-> -1, over |-> <<>>]]]

\* ctx.fillRect(0, 0, 640, 360) with a wash: every row is painted over
FillRect(canvas, wash) ==
    [canvas EXCEPT !.rows = [y \in DOMAIN canvas.rows |->
                                [canvas.rows[y] EXCEPT !.over = Append(@, wash)]]]

\* renderer.render into a render target followed by readRenderTargetPixels:
\* row number row of the buffer, of the view rendered at this tick
ReadPixels(time, row) == [at |-> time, src |-> row, over |-> <<>>]

\* a copy loop that keeps the render target's row order
SrcRowUnflipped(y) == y

\* the copy loop: destination row y is taken from buffer row 359 - y
\* (srcIdx and dstIdx use the same column x)
SrcRow(y) == (CaptureHeight - 1) - y

\* the robot camera: at the robot, 0.35 above the head, looking along the
\* heading plus the head yaw
RobotView(s, g) ==
    [x |-> s.x, y |-> g.headY + 350, z |-> s.z, heading |-> s.rotation + s.headRotY]

\* the security camera: on its mount, looking at the robot
SecurityView(s) ==
    [x |-> s.x, y |-> 800, z |-> s.z, heading |-> 0]

\* renderRobotPOV(): nothing without a context; else the flipped copy is put
\* on the canvas and washed, scanlined every third row and vignetted
renderRobotPOV(canvas, ctx, s, g, time) ==
    IF ~ctx THEN canvas
    ELSE [view |-> RobotView(s, g),
          rows |-> [y \in Rows |->
                       [ReadPixels(time, SrcRow(y)) EXCEPT !.over =
                           <<"lighter">>
                           \o (IF y % 3 = 0 THEN <<"scanline">> ELSE <<>>)
                           \o <<"vignette">>]]]

\* renderSecurityCamera(): the same with a tint and scanlines every second row
renderSecurityCamera(canvas, ctx, s, time) ==
    IF ~ctx THEN canvas
    ELSE [view |-> SecurityView(s),
          rows |-> [y \in Rows |->
                       [ReadPixels(time, SrcRow(y)) EXCEPT !.over =
                           <<"multiply">>
                           \o (IF y % 2 = 0 THEN <<"scanline">> ELSE <<>>)
                           \o <<"vignette">>]]]

-----------------------------------------------------------------------------
(* The animation loop                                                      *)

POV_RENDER_INTERVAL == 50

FACE_DRAW_INTERVAL == 33

\* everything one call of animate reads and writes besides the input flags
World == [
    state |-> state, idle |-> idle, graph |-> graph, dust |-> dustParticles,
    speedReport |-> speedReport, proposed |-> proposed, resolved |-> resolved,
    faceCtx |-> faceCtx, faceRaster |-> faceRaster,
    lastTime |-> lastTime, lastPovRenderTime |-> lastPovRenderTime,
    lastFaceDrawTime |-> lastFaceDrawTime, frame |-> frame,
    povCtx |-> povCtx, secCamCtx |-> secCamCtx,
    povCanvas |-> povCanvas, secCamCanvas |-> secCamCanvas ]

\* the Math.random() draws one tick may consume
Draws == [spawn : BOOLEAN, maxLife : MaxLifeDraws,
          lookTarget : LookTargets, lookDelay : LookDelays]

\* the frame time handed to the stages: seconds since the last tick, at most 0.1
frameDeltaUnclamped(currentTime, last) == currentTime - last

frameDelta(currentTime, last) == Min(currentTime - last, 100)

\* the camera LED's colour at a time
LedColor(currentTime) ==
    IF SinMilli(currentTime * 4) > 700 THEN "00ff00"
    ELSE IF SinMilli(currentTime * 4) > 0 THEN "00aa00"
    ELSE "005500"

\* what the main render draws: the robot group and the head as the scene
\* graph has them
SceneOf(s, g) ==
    [x |-> s.x, z |-> s.z, rotation |-> s.rotation, headRotationY |-> g.headRotationY]

\* a capture stage without the interval test
captureEveryTick(w, s, g, currentTime) ==
    [povCanvas    |-> renderRobotPOV(w.povCanvas, w.povCtx, s, g, currentTime),
     secCamCanvas |-> renderSecurityCamera(w.secCamCanvas, w.secCamCtx, s, currentTime),
     lastPovRenderTime |-> currentTime,
     captured     |-> TRUE]

\* a capture stage that sees the robot as the tick found it
captureBeforePhysics(w, s, g, currentTime) ==
    IF currentTime - w.lastPovRenderTime > POV_RENDER_INTERVAL
    THEN [povCanvas    |-> renderRobotPOV(w.povCanvas, w.povCtx, w.state, w.graph,
                                          currentTime),
          secCamCanvas |-> renderSecurityCamera(w.secCamCanvas, w.secCamCtx, w.state,
                                                currentTime),
          lastPovRenderTime |-> currentTime,
          captured     |-> TRUE]
    ELSE [povCanvas |-> w.povCanvas, secCamCanvas |-> w.secCamCanvas,
          lastPovRenderTime |-> w.lastPovRenderTime, captured |-> FALSE]

\* the capture stage of animate: both cameras when the interval has passed,
\* of the robot state s and the scene graph g the earlier stages left
capture(w, s, g, currentTime) ==
    IF currentTime - w.lastPovRenderTime > POV_RENDER_INTERVAL
    THEN [povCanvas    |-> renderRobotPOV(w.povCanvas, w.povCtx, s, g, currentTime),
          secCamCanvas |-> renderSecurityCamera(w.secCamCanvas, w.secCamCtx, s,
                                                currentTime),
          lastPovRenderTime |-> currentTime,
          captured     |-> TRUE]
    ELSE [povCanvas |-> w.povCanvas, secCamCanvas |-> w.secCamCanvas,
          lastPovRenderTime |-> w.lastPovRenderTime, captured |-> FALSE]

\* the stages of a tick in the order they ran
StagesRun(faceDue, captured) ==
    <<"updateMovement", "updateIdleAnimations", "updateDustParticles">>
    \o (IF faceDue THEN <<"drawFaceLocal">> ELSE <<>>)
    \o (IF captured THEN <<"renderRobotPOV", "renderSecurityCamera">> ELSE <<>>)
    \o <<"render">>

\* animate(currentTime): physics, idle animation, particles, the face when
\* due, the camera capture when due, the main render
animate(w, a, objs, e, color, text, currentTime, rnd) ==
    LET delta    == frameDelta(currentTime, w.lastTime)
        faceDue  == currentTime - w.lastFaceDrawTime > FACE_DRAW_INTERVAL
        face     == IF faceDue
                    THEN drawFaceLocal(w.faceCtx, e, color, text, currentTime)
                    ELSE [ctx |-> w.faceCtx, raster |-> w.faceRaster]
    IN CHOOSE world \in UNION UNION UNION {
           { { { [state |-> move.state, idle |-> idled.idle, graph |-> g,
                  dust |-> updateDustParticles(w.dust, move.state, delta,
                                               rnd.spawn, rnd.maxLife),
                  speedReport |-> move.report,
                  proposed |-> move.proposed, resolved |-> move.resolved,
                  faceCtx |-> face.ctx, faceRaster |-> face.raster,
                  lastTime |-> currentTime,
                  lastPovRenderTime |-> shot.lastPovRenderTime,
                  lastFaceDrawTime |-> IF faceDue THEN currentTime
                                                  ELSE w.lastFaceDrawTime,
                  frame |-> [time |-> currentTime, delta |-> delta,
                             faceDrawn |-> faceDue, captured |-> shot.captured,
                             rendered |-> TRUE, scene |-> SceneOf(move.state, g),
                             stages |-> StagesRun(faceDue, shot.captured)],
                  povCtx |-> w.povCtx, secCamCtx |-> w.secCamCtx,
                  povCanvas |-> shot.povCanvas, secCamCanvas |-> shot.secCamCanvas] :
                     shot \in {capture(w, move.state, g, currentTime)} } :
                 g \in {[idled.graph EXCEPT !.cameraLed = LedColor(currentTime)]} } :
              idled \in {updateIdleAnimations(w.idle, MovementGraph(w.graph, move.state),
                                              move.state, a, currentTime, delta,
                                              rnd.lookTarget, rnd.lookDelay)} } :
           move \in {updateMovement(w.state, a, objs, delta)} } : TRUE

\* the world once the scene effect has run with the canvases doc in the
\* DOM: construction, the lookup of the two contexts, then animate(0)
SceneEffect(doc) ==
    animate([state |-> InitialRobotState, idle |-> InitialIdleState,
             graph |-> InitialGraph, dust |-> <<>>,
             speedReport |-> [speed |-> 0, label |-> "Idle"],
             proposed |-> [x |-> 0, z |-> 0],
             resolved |-> [x |-> 0, z |-> 0, collision |-> FALSE],
             faceCtx |-> InitialFaceCtx, faceRaster |-> InitialFaceRaster,
             lastTime |-> 0, lastPovRenderTime |-> 0, lastFaceDrawTime |-> 0,
             frame |-> [time |-> 0, delta |-> 0, faceDrawn |-> FALSE,
                        captured |-> FALSE, rendered |-> FALSE,
                        scene |-> SceneOf(InitialRobotState, InitialGraph),
                        stages |-> <<>>],
             povCtx |-> "robot-pov-canvas" \in doc,
             secCamCtx |-> "security-cam-canvas" \in doc,
             povCanvas |-> BlankCanvas, secCamCanvas |-> BlankCanvas],
            NoActions, SceneObjects, "neutral", "#00ffff", NoText, 0,
            [spawn |-> FALSE, maxLife |-> 800, lookTarget |-> 0, lookDelay |-> 0])

\* the page as shipped has both canvases in the DOM when the effect runs
MountedWorld == SceneEffect(Canvases)

WorldIs(w) ==
    /\ state = w.state
    /\ idle = w.idle
    /\ graph = w.graph
    /\ dustParticles = w.dust
    /\ speedReport = w.speedReport
    /\ proposed = w.proposed
    /\ resolved = w.resolved
    /\ faceCtx = w.faceCtx
    /\ faceRaster = w.faceRaster
    /\ lastTime = w.lastTime
    /\ lastPovRenderTime = w.lastPovRenderTime
    /\ lastFaceDrawTime = w.lastFaceDrawTime
    /\ frame = w.frame
    /\ povCtx = w.povCtx
    /\ secCamCtx = w.secCamCtx
    /\ povCanvas = w.povCanvas
    /\ secCamCanvas = w.secCamCanvas

WorldBecomes(w) ==
    /\ state' = w.state
    /\ idle' = w.idle
    /\ graph' = w.graph
    /\ dustParticles' = w.dust
    /\ speedReport' = w.speedReport
    /\ proposed' = w.proposed
    /\ resolved' = w.resolved
    /\ faceCtx' = w.faceCtx
    /\ faceRaster' = w.faceRaster
    /\ lastTime' = w.lastTime
    /\ lastPovRenderTime' = w.lastPovRenderTime
    /\ lastFaceDrawTime' = w.lastFaceDrawTime
    /\ frame' = w.frame
    /\ povCtx' = w.povCtx
    /\ secCamCtx' = w.secCamCtx
    /\ povCanvas' = w.povCanvas
    /\ secCamCanvas' = w.secCamCanvas

-----------------------------------------------------------------------------
(* Starting points: the world after a stretch of driving.  Each is computed *)
(* by running animate itself from the mounted scene, so each is a state the *)
(* program reaches.                                                         *)

Held(S) == [k \in ActionNames |-> k \in S]

\* the draws taken during a stretch: every possible particle is spawned
StretchDraw == [spawn |-> TRUE, maxLife |-> 1199, lookTarget |-> 0, lookDelay |-> 0]

\* n frames in a row, gap apart, with the flags a held (the run is cut in
\* halves, the world between the halves computed once)
RECURSIVE Frames(_, _, _, _)
Frames(w, a, gap, n) ==
    IF n = 0 THEN w
    ELSE IF n = 1
    THEN animate(w, a, SceneObjects, "neutral", "#00ffff", NoText,
                 w.lastTime + gap, StretchDraw)
    ELSE CHOOSE end \in
             { Frames(mid, a, gap, n - (n \div 2)) :
                   mid \in {Frames(w, a, gap, n \div 2)} } : TRUE

RECURSIVE Drive(_, _, _)
Drive(w, legs, k) ==
    IF k > Len(legs) THEN w
    ELSE CHOOSE end \in
             { Drive(next, legs, k + 1) :
                   next \in {Frames(w, Held(legs[k].held), legs[k].gap, legs[k].n)} } : TRUE

Leg(held, gap, n) == [held |-> held, gap |-> gap, n |-> n]

\* the flags still held at the end of a drive
HeldAtEnd(legs) == IF legs = <<>> THEN NoActions ELSE Held(legs[Len(legs)].held)

Stretches == {
    <<>>,
    << Leg({"forward"}, 100, 47) >>,
    << Leg({"backward", "turnRight", "headRight"}, 100, 12) >>,
    << Leg({"turnRight"}, 100, 8), Leg({}, 100, 6), Leg({"forward"}, 100, 40) >>,
    << Leg({"forward", "turnLeft", "headLeft"}, 16, 40) >>,
    << Leg({"forward"}, 16, 58) >>,
    << Leg({"turnLeft"}, 100, 1), Leg({}, 100, 6), Leg({"backward"}, 100, 86) >>,
    << Leg({"turnRight"}, 100, 9), Leg({}, 100, 8), Leg({"forward"}, 100, 100),
       Leg({}, 16, 5) >>,
    << Leg({"headLeft"}, 100, 31) >> }

-----------------------------------------------------------------------------
(* Handlers                                                                *)

\* no scripted animation has returned yet
NoScript == [name |-> "none"]

\* showTextOnFace has not been called yet
NoShow == [text |-> NoText, duration |-> 0, at |-> 0]

\* no vision answer yet
NoVision == [thoughts |-> "none"]

\* no call made through robotRef
NoDrive == [method |-> "none"]

\* commandTimeoutRef.current as useRef(null) leaves it
\* (timer: what became of the timer it names; cancelled: the last clearTimeout
\* stopped a timer that had not run)
NoCommand == [command |-> "none", due |-> 0, set |-> FALSE, timer |-> "none",
              cancelled |-> FALSE]

\* the page's own state as its hooks construct it
PageIsIdle ==
    /\ visionResponse = NoVision
    /\ visionLoading = FALSE
    /\ vision = [pc |-> "idle"]
    /\ driven = NoDrive
    /\ isSpeaking = FALSE
    /\ speech = "idle"
    /\ commandTimeout = NoCommand

\* the page and the refs the loop does not write, as they are after mount
PageIsFresh ==
    /\ PageIsIdle
    /\ document = Canvases
    /\ isAnimating = FALSE
    /\ scripts = {}
    /\ finished = NoScript
    /\ shown = NoShow
    /\ refusals = 0

MaxTicks == 1

MaxKeyEvents == 1

FrameGaps == {16, 250}

\* the keys pressed and released: one key code for each flag
Keys == {"KeyW", "ArrowDown", "KeyA", "ArrowRight", "KeyQ", "KeyE"}

keyMap(code) ==
    CASE code \in {"KeyW", "ArrowUp"}    -> "forward"
      [] code \in {"KeyS", "ArrowDown"}  -> "backward"
      [] code \in {"KeyA", "ArrowLeft"}  -> "turnLeft"
      [] code \in {"KeyD", "ArrowRight"} -> "turnRight"
      [] code = "KeyQ"                   -> "headLeft"
      [] code = "KeyE"                   -> "headRight"

\* the draws a tick can tell apart in world w once the physics has run
DrawsFor(w, a, currentTime) ==
    LET s == updateMovement(w.state, a, collidableObjects,
                            Min(currentTime - w.lastTime, 100)).state
        looks == ~(Abs(s.velocity) > 100 \/ Abs(s.angularVelocity) > 300)
                 /\ ~(a.headLeft \/ a.headRight)
                 /\ currentTime > w.idle.nextLookTime
    IN [spawn : IF MaySpawn(s) THEN BOOLEAN ELSE {FALSE},
        maxLife : IF MaySpawn(s) THEN MaxLifeDraws ELSE {800},
        lookTarget : IF looks THEN LookTargets ELSE {0},
        lookDelay : IF looks THEN LookDelays ELSE {0}]

\* one animation frame: the callback requestAnimationFrame was given runs
\* and requests the next frame (no more than limit frames are followed)
AnimateUpTo(gap, limit) ==
    /\ rafPending
    /\ ticks < limit
    /\ \E rnd \in DrawsFor(World, actions, now + gap) :
           \E w \in {animate(World, actions, collidableObjects, expression,
                              faceColor, displayText, now + gap, rnd)} :
               WorldBecomes(w)
    /\ now' = now + gap
    /\ ticks' = ticks + 1
    /\ rafPending' = TRUE
    /\ UNCHANGED <<collidableObjects, actions, expression, faceColor, displayText,
                   displayTextTimeout, mounted, listeners, events, document,
                   scriptVars, pageVars>>

Animate(gap) == AnimateUpTo(gap, MaxTicks)

handleKeyDown(code) ==
    /\ listeners
    /\ events < MaxKeyEvents
    /\ actions' = [actions EXCEPT ![keyMap(code)] = TRUE]
    /\ events' = events + 1
    /\ UNCHANGED <<collidableObjects, robotVars, faceVars, loopVars,
                   mounted, rafPending, listeners, ticks, cameraVars, scriptVars,
                   pageVars>>

handleKeyUp(code) ==
    /\ listeners
    /\ events < MaxKeyEvents
    /\ actions' = [actions EXCEPT ![keyMap(code)] = FALSE]
    /\ events' = events + 1
    /\ UNCHANGED <<collidableObjects, robotVars, faceVars, loopVars,
                   mounted, rafPending, listeners, ticks, cameraVars, scriptVars,
                   pageVars>>

\* the scene effect's cleanup: listeners off, renderer disposed
Cleanup ==
    /\ mounted
    /\ mounted' = FALSE
    /\ listeners' = FALSE
    /\ UNCHANGED <<collidableObjects, robotVars, actions, faceVars, loopVars,
                   rafPending, ticks, events, cameraVars, scriptVars, pageVars>>

-----------------------------------------------------------------------------
(* The mounted scene, driven from the keyboard                             *)

Init ==
    /\ \E legs \in Stretches :
          \E w \in {Drive(MountedWorld, legs, 1)} :
             /\ WorldIs(w)
             /\ now = w.lastTime
             /\ actions = HeldAtEnd(legs)
    /\ collidableObjects = SceneObjects
    /\ expression = "neutral"
    /\ faceColor = "#00ffff"
    /\ displayText = NoText
    /\ displayTextTimeout = NoTimer
    /\ mounted = TRUE
    /\ rafPending = TRUE
    /\ listeners = TRUE
    /\ ticks = 0
    /\ events = 0
    /\ PageIsFresh

Next ==
    \/ \E gap \in FrameGaps : Animate(gap)
    \/ \E code \in Keys : handleKeyDown(code)
    \/ \E code \in Keys : handleKeyUp(code)
    \/ Cleanup

Spec == Init /\ [][Next]_vars

-----------------------------------------------------------------------------
(* Properties of the mounted scene (Spec)                                  *)

\* C1: after every updateMovement step the animation loop runs, whatever
\* flags are held and whatever the frame interval, the linear velocity is
\* within maxSpeed, the angular velocity within maxTurnSpeed and the head
\* yaw within headMaxRotation.
C1_StateBounded ==
    frame.rendered =>
        /\ Abs(state.velocity) <= PHYSICS.maxSpeed
        /\ Abs(state.angularVelocity) <= PHYSICS.maxTurnSpeed
        /\ Abs(state.headRotY) <= PHYSICS.headMaxRotation

\* a tick of the longest delta has run with forward held at full speed and
\* the head at its stop
C1_Witness ==
    /\ ticks > 0
    /\ frame.delta = 100
    /\ actions.forward
    /\ state.velocity = PHYSICS.maxSpeed
    /\ Abs(state.headRotY) = PHYSICS.headMaxRotation

\* C6: the robot's position stays within -8.4 <= x <= 8.4 and
\* -8.4 <= z <= 10 after every step, and the wall clamp takes a proposed x
\* of 20 to exactly 8.4.
C6_InsideArena ==
    /\ -8400 <= state.x /\ state.x <= 8400
    /\ -8400 <= state.z /\ state.z <= 10000
    /\ checkWallCollision(20000, state.z).x = 8400

\* a tick proposed a point beyond the +z bound and the robot was put on it
C6_Witness ==
    /\ ticks > 0
    /\ proposed.z > 10000
    /\ state.z = 10000
    /\ resolved.collision

\* C8: the dust list never holds more than 50 particles, a tick adds at
\* most one particle, and a tick that starts with 50 adds none.
C8_DustCapped ==
    /\ [](Len(dustParticles) <= DUST_CAP)
    /\ [][Len(dustParticles') <= Len(dustParticles) + 1]_vars
    /\ [][(ticks' # ticks /\ Len(dustParticles) = DUST_CAP) =>
              dustParticles' = AgeDust(dustParticles, frame'.delta)]_vars

\* a tick ran at spawning speed with the list full and left it full
C8_Witness ==
    /\ ticks > 0
    /\ MaySpawn(state)
    /\ Len(dustParticles) = DUST_CAP

\* C10: once the scene effect's cleanup has run, no tick executes (the
\* robot state, the loop's clocks and the canvases stay as they are) and no
\* key event changes the input flags.
C10_TornDown ==
    [][~mounted => UNCHANGED <<robotVars, actions, faceCtx, faceRaster, loopVars>>]_vars

\* how often a stage occurs among the stages a tick ran
Occurrences(stages, name) == Cardinality({k \in 1..Len(stages) : stages[k] = name})

\* C12: a tick runs the camera capture (renderRobotPOV, then
\* renderSecurityCamera) only if its timestamp is more than 50 ms after that
\* of the tick of the previous capture, at most once, and the main scene
\* render runs in every tick whether or not a capture ran.
C12_CaptureThrottled ==
    [][ticks' # ticks =>
          /\ frame'.captured => frame'.time - lastPovRenderTime > POV_RENDER_INTERVAL
          /\ lastPovRenderTime' = IF frame'.captured THEN frame'.time
                                                     ELSE lastPovRenderTime
          /\ Occurrences(frame'.stages, "renderRobotPOV")
                 = (IF frame'.captured THEN 1 ELSE 0)
          /\ Occurrences(frame'.stages, "renderSecurityCamera")
                 = (IF frame'.captured THEN 1 ELSE 0)
          /\ frame'.rendered
          /\ Occurrences(frame'.stages, "render") = 1]_vars

\* a tick came less than 50 ms after a capture: it rendered the main scene
\* and left the camera canvases as they were
C12_Witness ==
    /\ ticks > 0
    /\ lastPovRenderTime > 0
    /\ frame.time > lastPovRenderTime
    /\ frame.time - lastPovRenderTime <= POV_RENDER_INTERVAL
    /\ ~frame.captured
    /\ frame.rendered
    /\ povCanvas.rows[0].at = lastPovRenderTime

\* the order of the stages in animate
StageOrder ==
    <<"updateMovement", "updateIdleAnimations", "updateDustParticles",
      "drawFaceLocal", "renderRobotPOV", "renderSecurityCamera", "render">>

\* the position of a stage in that order
StageRank(name) == CHOOSE k \in 1..Len(StageOrder) : StageOrder[k] = name

\* C13: in every tick the stages run in the order physics, idle animation,
\* particles, face (when due), capture (when due), main render, and the
\* capture and the main render of a tick see the pose that tick's
\* integration wrote.
C13_StagesInOrder ==
    frame.rendered =>
        /\ \A j, k \in 1..Len(frame.stages) :
               j < k => StageRank(frame.stages[j]) < StageRank(frame.stages[k])
        /\ SubSeq(frame.stages, 1, 3) = SubSeq(StageOrder, 1, 3)
        /\ frame.stages[Len(frame.stages)] = "render"
        /\ frame.faceDrawn => lastFaceDrawTime = frame.time
        /\ (frame.captured /\ povCtx) =>
               /\ povCanvas.view = RobotView(state, graph)
               /\ povCanvas.rows[0].at = frame.time
        /\ (frame.captured /\ secCamCtx) => secCamCanvas.view = SecurityView(state)
        /\ frame.scene = SceneOf(state, graph)

\* a tick moved the robot at speed, drew the face and captured
C13_Witness ==
    /\ ticks > 0
    /\ frame.faceDrawn
    /\ frame.captured
    /\ Abs(state.velocity) > 1000
    /\ povCanvas.view.z = state.z
    /\ povCanvas.view.z > 1000

\* C17: the dt a tick hands to the integrator, the idle animator and the
\* particle update is min((currentTime - lastTime) / 1000, 0.1): never more
\* than 0.1, and not negative when the timestamps do not decrease.
C17_DeltaClamped ==
    [][ticks' # ticks =>
          LET dt == Min(frame'.time - lastTime, 100)
          IN /\ frame'.delta = dt
             /\ frame'.delta <= 100
             /\ frame'.time >= lastTime => frame'.delta >= 0
             /\ state'.rotation = state.rotation + Mul(state'.angularVelocity, dt)
             /\ idle'.breathPhase = idle.breathPhase + Mul(dt, 1500)
             /\ \A k \in 1..Len(dustParticles') :
                    dustParticles'[k].life >= dt]_vars

\* the first frame after the initial animate(0) came 250 ms later and was
\* integrated as 100 ms
C17_Witness ==
    /\ ticks = 1
    /\ frame.time = 250
    /\ frame.delta = 100
    /\ idle.breathPhase = 150

SpeedLabels == {"Idle", "Moving", "Reversing", "Turning", "Moving + Turn",
                "Reversing + Turn"}

\* C18: after every integrator step the observer has been handed the speed
\* percentage |velocity| / maxSpeed * 100, within 0..100, and a label of the
\* fixed set: 'Idle' exactly when |velocity| <= 0.1 and
\* |angularVelocity| <= 0.3, a 'Reversing' label exactly when
\* velocity < -0.1, a '+ Turn' label exactly when the robot is moving and
\* |angularVelocity| > 0.3.
C18_SpeedReported ==
    frame.rendered =>
        /\ 0 <= speedReport.speed /\ speedReport.speed <= 100
        /\ speedReport.speed * PHYSICS.maxSpeed
               <= 100 * Abs(state.velocity) + PHYSICS.maxSpeed \div 20
        /\ 100 * Abs(state.velocity) - PHYSICS.maxSpeed \div 20
               < (speedReport.speed + 1) * PHYSICS.maxSpeed
        /\ speedReport.label \in SpeedLabels
        /\ speedReport.label = "Idle" <=>
               (Abs(state.velocity) <= 100 /\ Abs(state.angularVelocity) <= 300)
        /\ speedReport.label \in {"Reversing", "Reversing + Turn"} <=>
               state.velocity < -100
        /\ speedReport.label \in {"Moving + Turn", "Reversing + Turn"} <=>
               (Abs(state.velocity) > 100 /\ Abs(state.angularVelocity) > 300)

\* a tick ended with the robot reversing at its full backward speed while
\* turning
C18_Witness ==
    /\ ticks > 0
    /\ state.velocity = -1320
    /\ Abs(state.angularVelocity) > 300
    /\ speedReport = [speed |-> 60, label |-> "Reversing + Turn"]

\* C20: while a movement flag is held, a step takes the linear velocity
\* toward the target (+maxSpeed forward, -0.6 maxSpeed backward) by rate * dt
\* and never past it, the rate being the acceleration (4.0) when the speed
\* grows and the deceleration (5.0) when it shrinks; so the velocity changes
\* by at most 5.0 * dt in a step.  (A step in which the resolver reports a
\* collision halves the velocity afterwards and is left aside.)
C20_TowardTarget ==
    [][(ticks' # ticks /\ (actions.forward \/ actions.backward)
                       /\ ~resolved'.collision) =>
          LET target == TargetVelocity(actions)
              v      == state.velocity
              dt     == frame'.delta
              grows  == v = 0 \/ (Sign(v) = Sign(target) /\ Abs(v) < Abs(target))
              rate   == IF grows THEN PHYSICS.acceleration ELSE PHYSICS.deceleration
          IN /\ Min(v, target) <= state'.velocity
             /\ state'.velocity <= Max(v, target)
             /\ Abs(state'.velocity - v) <= Mul(PHYSICS.deceleration, dt)
             /\ \/ state'.velocity = target
                \/ Abs(state'.velocity - v) = Mul(rate, dt)]_vars

-----------------------------------------------------------------------------
(* The collision resolver on its own: a registry, a proposed point, the    *)
(* resolver's answer, and the answer handed back to the resolver           *)

Prop(radius, x, z) == [type |-> "prop", radius |-> radius, x |-> x, z |-> z]

\* registries the resolver is run against: one prop in the open, the table
\* alone, the two cones alone, the scene's own registry
ObstacleSets == {
    << Prop(300, 0, 0) >>,
    << Prop(500, 0, 0) >>,
    << Prop(800, 0, 0) >>,
    << SceneObjects[8] >>,
    << SceneObjects[15], SceneObjects[16] >>,
    SceneObjects }

ProbeStep == 100

ProbeSpan == 20

\* proposed points: a grid around every circular entry, points 0.001 from
\* its centre, and points beyond each wall
Probes(objs) ==
    UNION { { [x |-> objs[i].x + dx * ProbeStep, z |-> objs[i].z + dz * ProbeStep] :
                dx \in -ProbeSpan..ProbeSpan, dz \in -ProbeSpan..ProbeSpan } :
            i \in { k \in 1..Len(objs) : objs[k].type # "wall" } }
    \cup UNION { { [x |-> objs[i].x + 1, z |-> objs[i].z],
                   [x |-> objs[i].x, z |-> objs[i].z - 1] } :
                 i \in { k \in 1..Len(objs) : objs[k].type # "wall" } }
    \cup { [x |-> 20000, z |-> 0], [x |-> -20000, z |-> 0],
           [x |-> 0, z |-> 20000], [x |-> 0, z |-> -20000],
           [x |-> 8400, z |-> 10000], [x |-> 9000, z |-> 9000] }

\* the fields of the world the resolver does not touch
RestOfWorldIs(w) ==
    /\ state = w.state
    /\ idle = w.idle
    /\ graph = w.graph
    /\ dustParticles = w.dust
    /\ speedReport = w.speedReport
    /\ faceCtx = w.faceCtx
    /\ faceRaster = w.faceRaster
    /\ lastTime = w.lastTime
    /\ lastPovRenderTime = w.lastPovRenderTime
    /\ lastFaceDrawTime = w.lastFaceDrawTime
    /\ frame = w.frame
    /\ povCtx = w.povCtx
    /\ secCamCtx = w.secCamCtx
    /\ povCanvas = w.povCanvas
    /\ secCamCanvas = w.secCamCanvas
    /\ now = w.lastTime
    /\ actions = NoActions
    /\ expression = "neutral"
    /\ faceColor = "#00ffff"
    /\ displayText = NoText
    /\ displayTextTimeout = NoTimer
    /\ mounted = TRUE
    /\ rafPending = TRUE
    /\ listeners = TRUE
    /\ ticks = 0
    /\ events = 0
    /\ PageIsFresh

InitResolve ==
    /\ collidableObjects \in ObstacleSets
    /\ proposed \in Probes(collidableObjects)
    /\ resolved = resolveCollisions(collidableObjects, proposed.x, proposed.z)
    /\ RestOfWorldIs(MountedWorld)

\* resolveCollisions called on the point it returned last
ResolveReturned ==
    /\ proposed' = [x |-> resolved.x, z |-> resolved.z]
    /\ resolved' = resolveCollisions(collidableObjects, resolved.x, resolved.z)
    /\ UNCHANGED <<collidableObjects, state, idle, graph, dustParticles, speedReport,
                   actions, faceVars, loopVars, mounted, rafPending, listeners,
                   ticks, events, cameraVars, scriptVars, pageVars>>

NextResolve == ResolveReturned

SpecResolve == InitResolve /\ [][NextResolve]_vars

\* squared distance between two points, in sixteenths of a unit squared
Dist2x256(ax, az, bx, bz) == ((ax - bx) * (ax - bx) + (az - bz) * (az - bz)) * 256

\* what fixed-point rounding can add to a length
Slack == 1 + 1

Circular(objs) == { k \in 1..Len(objs) : objs[k].type # "wall" }

\* no two entries are close enough for their keep-out circles (radius plus
\* robot radius plus padding) to meet, let alone the obstacles themselves
NoOverlap(objs) ==
    \A i, j \in Circular(objs) :
        i < j =>
            LET reach == objs[i].radius + objs[j].radius
                         + 2 * (ROBOT_RADIUS + COLLISION_PADDING)
            IN (objs[i].x - objs[j].x) * (objs[i].x - objs[j].x)
               + (objs[i].z - objs[j].z) * (objs[i].z - objs[j].z) >= reach * reach

\* C4: for a registry without overlapping obstacles, the resolver returns
\* the point it is handed whenever that point is one it returned itself
\* (up to fixed-point rounding).
C4_Idempotent ==
    [][NoOverlap(collidableObjects) =>
          /\ Abs(resolved'.x - resolved.x) <= Slack
          /\ Abs(resolved'.z - resolved.z) <= Slack]_vars

\* C5: for a single circular obstacle of radius R and a proposed point at
\* distance d from its centre, 0.001 < d < 0.6 + R, the object pass sets
\* the collision flag and returns the point at distance 0.6 + R from the
\* centre on the ray from the centre through the proposed point (up to
\* fixed-point rounding).
C5_PushToBoundary ==
    (Len(collidableObjects) = 1 /\ collidableObjects[1].type # "wall") =>
        LET obj     == collidableObjects[1]
            dx      == proposed.x - obj.x
            dz      == proposed.z - obj.z
            d2      == dx * dx + dz * dz
            minDist == 600 + obj.radius
            r       == checkObjectCollision(collidableObjects, proposed.x, proposed.z)
            rx      == r.x - obj.x
            rz      == r.z - obj.z
        IN (1 < d2 /\ d2 < minDist * minDist) =>
               /\ r.collision
               /\ Abs(Sqrt(Dist2x256(r.x, r.z, obj.x, obj.z)) - 16 * minDist) <= 16 * Slack
               /\ Abs(dx * rz - dz * rx) <= Slack * Sqrt(d2)
               /\ dx * rx + dz * rz > 0

\* the example of the claim: radius 0.5, proposed at distance 0.3, returned
\* at distance 1.1 on the same ray
C5_Witness ==
    /\ collidableObjects = << Prop(500, 0, 0) >>
    /\ proposed = [x |-> 300, z |-> 0]
    /\ resolved = [x |-> 1100, z |-> 0, collision |-> TRUE]

\* the point is within reach of a circular entry: closer than its radius
\* plus 0.6 and farther than 0.001
WithinReach(obj, px, pz) ==
    /\ obj.type # "wall"
    /\ LET d2 == (px - obj.x) * (px - obj.x) + (pz - obj.z) * (pz - obj.z)
       IN 1 < d2 /\ d2 < (600 + obj.radius) * (600 + obj.radius)

\* C7: the resolver's flag is set exactly when the proposed point is
\* within reach of some circular obstacle (the object pass pushed) or the
\* wall clamp moved what the object pass returned; when the flag is not
\* set, the returned point is the proposed point.
C7_FlagExact ==
    LET objResult == checkObjectCollision(collidableObjects, proposed.x, proposed.z)
        pushed    == \E k \in 1..Len(collidableObjects) :
                         WithinReach(collidableObjects[k], proposed.x, proposed.z)
        clamped   == \/ objResult.x < -8400 \/ objResult.x > 8400
                     \/ objResult.z < -8400 \/ objResult.z > 10000
    IN /\ resolved.collision <=> (pushed \/ clamped)
       /\ ~resolved.collision => (resolved.x = proposed.x /\ resolved.z = proposed.z)

\* the flag is set by the wall clamp alone: no obstacle is within reach
C7_Witness ==
    /\ resolved.collision
    /\ proposed.x > 8400
    /\ resolved.x = 8400
    /\ \A k \in 1..Len(collidableObjects) :
           ~WithinReach(collidableObjects[k], proposed.x, proposed.z)

-----------------------------------------------------------------------------
(* Coasting: every key has been released and the display delivers frames   *)
(* at a steady interval.  The integrator is followed on its own: the idle  *)
(* animator, the particles and the canvases do not feed back into it.      *)

\* drives that end with the keys released and one coasting frame at the
\* interval the display keeps from then on
CoastStarts == {
    << Leg({}, 16, 1) >>,
    << Leg({"forward", "turnLeft", "headLeft"}, 25, 3), Leg({}, 25, 3), Leg({}, 50, 1) >>,
    << Leg({"forward", "turnLeft"}, 16, 21), Leg({}, 16, 1) >>,
    << Leg({"turnRight"}, 16, 30), Leg({}, 16, 1) >>,
    << Leg({"forward", "turnRight", "headRight"}, 25, 3), Leg({}, 25, 3), Leg({}, 50, 1) >>,
    << Leg({"forward", "turnRight", "headLeft"}, 100, 3), Leg({}, 100, 1) >> }

InitCoast ==
    /\ \E legs \in CoastStarts :
          \E w \in {Drive(MountedWorld, legs, 1)} :
             /\ WorldIs(w)
             /\ now = w.lastTime
    /\ actions = NoActions
    /\ collidableObjects = SceneObjects
    /\ expression = "neutral"
    /\ faceColor = "#00ffff"
    /\ displayText = NoText
    /\ displayTextTimeout = NoTimer
    /\ mounted = TRUE
    /\ rafPending = TRUE
    /\ listeners = TRUE
    /\ ticks = 0
    /\ events = 0
    /\ PageIsFresh

\* the updateMovement call of one more frame, its delta that of the frame
\* before
Integrate ==
    /\ rafPending
    /\ frame.delta > 0
    /\ \E move \in {updateMovement(state, actions, collidableObjects, frame.delta)} :
          /\ state' = move.state
          /\ proposed' = move.proposed
          /\ resolved' = move.resolved
          /\ speedReport' = move.report
          /\ graph' = MovementGraph(graph, move.state)
    /\ UNCHANGED <<collidableObjects, idle, dustParticles, actions, faceVars, loopVars,
                   mounted, rafPending, listeners, ticks, events, cameraVars, scriptVars,
                   pageVars>>

NextCoast == Integrate

\* animate requests the next frame before anything else, so frames keep
\* coming
SpecCoast == InitCoast /\ [][NextCoast]_vars /\ WF_vars(Integrate)

\* C2: once no input flag is set, the linear velocity is exactly 0 after
\* finitely many steps and stays 0.
C2_VelocitySettles ==
    <>[](actions = NoActions) => <>[](state.velocity = 0)

\* C3: once neither head flag is set, the head angular velocity is exactly
\* 0 after finitely many steps.
C3_HeadSettles ==
    <>[](~actions.headLeft /\ ~actions.headRight) => <>(state.headAngularVel = 0)

-----------------------------------------------------------------------------
(* The LCD face: the robot stands still while the page changes the         *)
(* expression and texts are shown on the face                              *)

MaxFaceEvents == 3

MaxFaceTicks == 2

\* the expressions the page picks
ExpressionPicks == {"happy", "loading", "sleepy", "confused"}

\* the texts shown, each with its duration
Shows == { <<"Hello!", 2500>>, <<"Nice to meet you!", 3000>>, <<"Saved!", 0>> }

\* the expression prop changes and the effect copies it to expressionRef
SetExpression(e) ==
    /\ mounted
    /\ events < MaxFaceEvents
    /\ e # expression
    /\ expression' = e
    /\ events' = events + 1
    /\ UNCHANGED <<collidableObjects, robotVars, actions, faceColor, displayText,
                   displayTextTimeout, faceCtx, faceRaster, loopVars,
                   mounted, rafPending, listeners, ticks, cameraVars, scriptVars,
                   pageVars>>

\* showTextOnFace(text, duration): the text is set, the pending timer is
\* replaced
showTextOnFace(text, duration) ==
    /\ mounted
    /\ events < MaxFaceEvents
    /\ displayText' = text
    /\ displayTextTimeout' = IF duration > 0 THEN now + duration ELSE NoTimer
    /\ shown' = [text |-> text, duration |-> duration, at |-> now]
    /\ events' = events + 1
    /\ UNCHANGED <<collidableObjects, robotVars, actions, expression, faceColor,
                   faceCtx, faceRaster, lastTime, lastPovRenderTime, lastFaceDrawTime,
                   frame, now, mounted, rafPending, listeners, ticks, cameraVars,
                   isAnimating, scripts, finished, refusals, pageVars>>

\* the timer set by showTextOnFace fires: time has passed to its due time
\* (no frame is delivered in between: the tab was hidden), the text is cleared
DisplayTextTimeout ==
    /\ displayTextTimeout # NoTimer
    /\ events < MaxFaceEvents
    /\ now' = Max(now, displayTextTimeout)
    /\ displayText' = NoText
    /\ displayTextTimeout' = NoTimer
    /\ events' = events + 1
    /\ UNCHANGED <<collidableObjects, robotVars, actions, expression, faceColor,
                   faceCtx, faceRaster, lastTime, lastPovRenderTime, lastFaceDrawTime,
                   frame, mounted, rafPending, listeners, ticks, cameraVars, scriptVars,
                   pageVars>>

InitFace ==
    /\ WorldIs(MountedWorld)
    /\ now = 0
    /\ actions = NoActions
    /\ collidableObjects = SceneObjects
    /\ expression = "neutral"
    /\ faceColor = "#00ffff"
    /\ displayText = NoText
    /\ displayTextTimeout = NoTimer
    /\ mounted = TRUE
    /\ rafPending = TRUE
    /\ listeners = TRUE
    /\ ticks = 0
    /\ events = 0
    /\ PageIsFresh

NextFace ==
    \/ \E gap \in FrameGaps : AnimateUpTo(gap, MaxFaceTicks)
    \/ \E e \in ExpressionPicks : SetExpression(e)
    \/ \E show \in Shows : showTextOnFace(show[1], show[2])
    \/ DisplayTextTimeout

SpecFace == InitFace /\ [][NextFace]_vars

\* C9: what drawFaceLocal paints for an expression, a colour and a time
\* with no text to show does not depend on what was drawn before: it is
\* what the same call paints on a canvas nothing was drawn on.
C9_FacePure ==
    faceRaster.kind = "face" =>
        faceRaster = drawFaceLocal(InitialFaceCtx, faceRaster.shape, faceRaster.color,
                                   NoText, lastFaceDrawTime).raster

-----------------------------------------------------------------------------
(* The camera canvases: the scene effect may run before the page has put   *)
(* a camera canvas in the DOM; the page adds it later                      *)

MaxCaptureTicks == 3

\* the page commits a camera canvas to the DOM
MountCanvas(id) ==
    /\ id \notin document
    /\ document' = document \cup {id}
    /\ UNCHANGED <<collidableObjects, robotVars, actions, faceVars, loopVars,
                   mounted, rafPending, listeners, ticks, events,
                   povCtx, secCamCtx, povCanvas, secCamCanvas, scriptVars,
                   pageVars>>

InitCapture ==
    /\ \E doc \in SUBSET Canvases :
          /\ document = doc
          /\ WorldIs(SceneEffect(doc))
    /\ now = 0
    /\ actions = NoActions
    /\ collidableObjects = SceneObjects
    /\ expression = "neutral"
    /\ faceColor = "#00ffff"
    /\ displayText = NoText
    /\ displayTextTimeout = NoTimer
    /\ mounted = TRUE
    /\ rafPending = TRUE
    /\ listeners = TRUE
    /\ ticks = 0
    /\ events = 0
    /\ isAnimating = FALSE
    /\ scripts = {}
    /\ finished = NoScript
    /\ shown = NoShow
    /\ refusals = 0
    /\ PageIsIdle

NextCapture ==
    \/ \E gap \in FrameGaps : AnimateUpTo(gap, MaxCaptureTicks)
    \/ \E id \in Canvases : MountCanvas(id)

SpecCapture == InitCapture /\ [][NextCapture]_vars

-----------------------------------------------------------------------------
(* Scripted animations: doWave, doSpin, doTakePhoto and doSayHello are     *)
(* async functions.  A call runs to its first await; from then on the      *)
(* function is a record in scripts: its name, the await it is suspended at *)
(* (pc), the due time of the timer it awaits and its local variables.      *)
(* Timers fire on time, in the order of their due times; of two timers due *)
(* at the same time the one set first fires first.                         *)

\* scripted animations that run to their end
MaxScriptCalls == 1

\* calls turned away by the guard
MaxRefusals == 1

MaxScriptTicks == 2

ScriptGaps == {750}

\* sceneRef.current: set by the scene effect, which has run in every initial
\* state, and never reset
SceneRefSet == TRUE

\* a guard that lets every call through
RefusesNever(name) == FALSE

\* the guard at the top of each scripted animation (doSpin does not look at
\* sceneRef)
Refuses(name) == isAnimating \/ (name # "doSpin" /\ ~SceneRefSet)

\* the values a scripted animation overrides
Overridden == [headRotY |-> state.headRotY, expression |-> expression,
               displayText |-> displayText]

\* the body of showTextOnFace at time t, for a caller to apply
ShowText(text, duration, t) ==
    /\ displayText' = text
    /\ displayTextTimeout' = IF duration > 0 THEN t + duration ELSE NoTimer
    /\ shown' = [text |-> text, duration |-> duration, at |-> t]

Script(name, pc, due) ==
    [name |-> name, pc |-> pc, due |-> due, originalHeadRot |-> 0, startRot |-> 0,
     startTime |-> 0, originalY |-> 0, flashed |-> FALSE, before |-> Overridden]

\* the pc of doSpin while it waits for spinLoop to resolve its promise
Spinning == 0

\* the due times of the timers that are set
TimersDue ==
    {sc.due : sc \in {x \in scripts : x.pc # Spinning}}
    \cup (IF displayTextTimeout # NoTimer THEN {displayTextTimeout} ELSE {})

\* the timer script sc awaits is the next to fire
TimerFiresFor(sc) ==
    /\ sc \in scripts
    /\ sc.pc # Spinning
    /\ \A due \in TimersDue : sc.due <= due
    /\ displayTextTimeout # NoTimer => sc.due < displayTextTimeout

\* the function returns: isAnimatingRef is reset
Returns(sc, s, e, text) ==
    /\ isAnimating' = FALSE
    /\ scripts' = scripts \ {sc}
    /\ finished' = [name |-> sc.name, before |-> sc.before,
                    after |-> [headRotY |-> s.headRotY, expression |-> e,
                               displayText |-> text]]
    /\ UNCHANGED refusals

\* the scripted animations that have returned, of those started
Returned == events - Cardinality(scripts)

\* a call that is refused returns at once
Refused(name) ==
    /\ Refuses(name)
    /\ refusals < MaxRefusals
    /\ refusals' = refusals + 1
    /\ UNCHANGED <<collidableObjects, robotVars, actions, faceVars, loopVars,
                   mounted, rafPending, listeners, ticks, events, cameraVars,
                   isAnimating, scripts, finished, shown, pageVars>>

waveSteps == <<400, -400, 300, -300, 200, -200, 0>>

\* doWave() up to its first await
doWave ==
    \/ Refused("doWave")
    \/ /\ ~Refuses("doWave")
       /\ Returned < MaxScriptCalls
       /\ events' = events + 1
       /\ isAnimating' = TRUE
       /\ expression' = "happy"
       /\ ShowText("Hello!", 2500, now)
       /\ state' = [state EXCEPT !.headRotY = waveSteps[1]]
       /\ scripts' = scripts \cup
              {[Script("doWave", 1, now + 150) EXCEPT
                    !.originalHeadRot = state.headRotY]}
       /\ UNCHANGED <<collidableObjects, idle, graph, dustParticles, speedReport,
                      proposed, resolved, actions, faceColor, faceCtx, faceRaster,
                      loopVars, mounted, rafPending, listeners, ticks, cameraVars,
                      finished, refusals, pageVars>>

\* doWave() resumed by its timer: the next wave step, the head put back, or
\* the end
WaveTimer(sc) ==
    /\ sc.name = "doWave"
    /\ TimerFiresFor(sc)
    /\ now' = Max(now, sc.due)
    /\ IF sc.pc < Len(waveSteps)
       THEN /\ state' = [state EXCEPT !.headRotY = waveSteps[sc.pc + 1]]
            /\ scripts' = (scripts \ {sc})
                          \cup {[sc EXCEPT !.pc = sc.pc + 1, !.due = now' + 150]}
            /\ UNCHANGED <<expression, isAnimating, finished, refusals>>
       ELSE IF sc.pc = Len(waveSteps)
       THEN /\ state' = [state EXCEPT !.headRotY = sc.originalHeadRot]
            /\ scripts' = (scripts \ {sc})
                          \cup {[sc EXCEPT !.pc = sc.pc + 1, !.due = now' + 500]}
            /\ UNCHANGED <<expression, isAnimating, finished, refusals>>
       ELSE /\ expression' = "neutral"
            /\ Returns(sc, state, "neutral", displayText)
            /\ UNCHANGED state
    /\ UNCHANGED <<collidableObjects, idle, graph, dustParticles, speedReport,
                   proposed, resolved, actions, faceColor, displayText,
                   displayTextTimeout, faceCtx, faceRaster, lastTime,
                   lastPovRenderTime, lastFaceDrawTime, frame, mounted, rafPending,
                   listeners, ticks, events, cameraVars, shown, pageVars>>


\* Math.random() draws of doSayHello: the first and the last greeting
Greetings == {"Hi there!", "Nice to meet you!"}

\* doSayHello() up to its first await
doSayHello ==
    \/ Refused("doSayHello")
    \/ /\ ~Refuses("doSayHello")
       /\ Returned < MaxScriptCalls
       /\ events' = events + 1
       /\ isAnimating' = TRUE
       /\ expression' = "happy"
       /\ \E greeting \in Greetings : ShowText(greeting, 3000, now)
       /\ graph' = [graph EXCEPT !.headY = graph.headY - 50]
       /\ scripts' = scripts \cup
              {[Script("doSayHello", 1, now + 100) EXCEPT !.originalY = graph.headY]}
       /\ UNCHANGED <<collidableObjects, state, idle, dustParticles, speedReport,
                      proposed, resolved, actions, faceColor, faceCtx, faceRaster,
                      loopVars, mounted, rafPending, listeners, ticks, cameraVars,
                      finished, refusals, pageVars>>

\* doSayHello() resumed by its timer: the nod goes on (pc 1..5), the head is
\* put back (pc 6), or the end (pc 7)
HelloTimer(sc) ==
    /\ sc.name = "doSayHello"
    /\ TimerFiresFor(sc)
    /\ now' = Max(now, sc.due)
    /\ IF sc.pc < 6
       THEN /\ graph' = [graph EXCEPT !.headY = IF sc.pc % 2 = 1
                                                THEN sc.originalY + 20
                                                ELSE sc.originalY - 50]
            /\ scripts' = (scripts \ {sc})
                          \cup {[sc EXCEPT !.pc = sc.pc + 1, !.due = now' + 100]}
            /\ UNCHANGED <<expression, isAnimating, finished, refusals>>
       ELSE IF sc.pc = 6
       THEN /\ graph' = [graph EXCEPT !.headY = sc.originalY]
            /\ scripts' = (scripts \ {sc})
                          \cup {[sc EXCEPT !.pc = sc.pc + 1, !.due = now' + 2000]}
            /\ UNCHANGED <<expression, isAnimating, finished, refusals>>
       ELSE /\ expression' = "neutral"
            /\ Returns(sc, state, "neutral", displayText)
            /\ UNCHANGED graph
    /\ UNCHANGED <<collidableObjects, state, idle, dustParticles, speedReport,
                   proposed, resolved, actions, faceColor, displayText,
                   displayTextTimeout, faceCtx, faceRaster, lastTime,
                   lastPovRenderTime, lastFaceDrawTime, frame, mounted, rafPending,
                   listeners, ticks, events, cameraVars, shown, pageVars>>

\* doTakePhoto() up to its first await: the flash is painted on the POV
\* canvas the document has at that moment
doTakePhoto ==
    \/ Refused("doTakePhoto")
    \/ /\ ~Refuses("doTakePhoto")
       /\ Returned < MaxScriptCalls
       /\ events' = events + 1
       /\ isAnimating' = TRUE
       /\ expression' = "neutral"
       /\ ShowText("(camera)", 500, now)
       /\ povCanvas' = IF "robot-pov-canvas" \in document
                       THEN FillRect(povCanvas, "flash")
                       ELSE povCanvas
       /\ scripts' = scripts \cup
              {[Script("doTakePhoto", 1, now + 100) EXCEPT
                    !.flashed = "robot-pov-canvas" \in document]}
       /\ UNCHANGED <<collidableObjects, robotVars, actions, faceColor, faceCtx,
                      faceRaster, loopVars, mounted, rafPending, listeners, ticks,
                      document, povCtx, secCamCtx, secCamCanvas, finished, refusals,
                      pageVars>>

\* doTakePhoto() resumed by its timer: the LED goes white (pc 1), the LED
\* goes green and 'Saved!' is shown (pc 2), or the end (pc 3)
PhotoTimer(sc) ==
    /\ sc.name = "doTakePhoto"
    /\ TimerFiresFor(sc)
    /\ now' = Max(now, sc.due)
    /\ IF sc.pc = 1
       THEN /\ graph' = [graph EXCEPT !.cameraLed = "ffffff"]
            /\ scripts' = (scripts \ {sc})
                          \cup {[sc EXCEPT !.pc = 2, !.due = now' + 200]}
            /\ UNCHANGED <<expression, displayText, displayTextTimeout, shown,
                           isAnimating, finished, refusals>>
       ELSE IF sc.pc = 2
       THEN /\ graph' = [graph EXCEPT !.cameraLed = "00ff00"]
            /\ ShowText("Saved!", 1500, now')
            /\ expression' = "happy"
            /\ scripts' = (scripts \ {sc})
                          \cup {[sc EXCEPT !.pc = 3, !.due = now' + 1500]}
            /\ UNCHANGED <<isAnimating, finished, refusals>>
       ELSE /\ expression' = "neutral"
            /\ Returns(sc, state, "neutral", displayText)
            /\ UNCHANGED <<graph, displayText, displayTextTimeout, shown>>
    /\ UNCHANGED <<collidableObjects, state, idle, dustParticles, speedReport,
                   proposed, resolved, actions, faceColor, faceCtx, faceRaster,
                   lastTime, lastPovRenderTime, lastFaceDrawTime, frame, mounted,
                   rafPending, listeners, ticks, events, cameraVars, pageVars>>

spinDuration == 1500

\* spinLoop() at time t: the heading eased towards a full turn, or the full
\* turn once spinDuration has passed
spinLoop(s, sc, t) ==
    LET elapsed  == t - sc.startTime
        progress == Div(elapsed, spinDuration)
        easeOut  == Milli - Mul(Mul(Milli - progress, Milli - progress),
                                Milli - progress)
    IN IF elapsed < spinDuration
       THEN [s EXCEPT !.rotation = sc.startRot + Mul(easeOut, 6283),
                      !.wheelRotation = s.wheelRotation + 200]
       ELSE [s EXCEPT !.rotation = sc.startRot + 6283]

\* doSpin() up to its first await: the first spinLoop() runs in the call
doSpin ==
    \/ Refused("doSpin")
    \/ /\ ~Refuses("doSpin")
       /\ Returned < MaxScriptCalls
       /\ events' = events + 1
       /\ isAnimating' = TRUE
       /\ expression' = "surprised"
       /\ ShowText("Wheee!", 2000, now)
       /\ \E sc \in {[Script("doSpin", Spinning, 0) EXCEPT
                          !.startRot = state.rotation, !.startTime = now]} :
             /\ state' = spinLoop(state, sc, now)
             /\ scripts' = scripts \cup {sc}
       /\ UNCHANGED <<collidableObjects, idle, graph, dustParticles, speedReport,
                      proposed, resolved, actions, faceColor, faceCtx, faceRaster,
                      loopVars, mounted, rafPending, listeners, ticks, cameraVars,
                      finished, refusals, pageVars>>

\* doSpin() resumed by its last timer: the end
SpinTimer(sc) ==
    /\ sc.name = "doSpin"
    /\ TimerFiresFor(sc)
    /\ now' = Max(now, sc.due)
    /\ expression' = "neutral"
    /\ Returns(sc, state, "neutral", displayText)
    /\ UNCHANGED <<collidableObjects, robotVars, actions, faceColor, displayText,
                   displayTextTimeout, faceCtx, faceRaster, lastTime,
                   lastPovRenderTime, lastFaceDrawTime, frame, mounted, rafPending,
                   listeners, ticks, events, cameraVars, shown, pageVars>>

\* the timer set by showTextOnFace fires in its turn: the text is cleared
DisplayTextTimer ==
    /\ displayTextTimeout # NoTimer
    /\ \A due \in TimersDue : displayTextTimeout <= due
    /\ now' = Max(now, displayTextTimeout)
    /\ displayText' = NoText
    /\ displayTextTimeout' = NoTimer
    /\ UNCHANGED <<collidableObjects, robotVars, actions, expression, faceColor,
                   faceCtx, faceRaster, lastTime, lastPovRenderTime, lastFaceDrawTime,
                   frame, mounted, rafPending, listeners, ticks, events, cameraVars,
                   scriptVars, pageVars>>

\* one animation frame while scripts may run: animate, then the spinLoop a
\* spinning doSpin has requested, which on its last run lets doSpin go on
\* to its last await
ScriptFrame(gap) ==
    /\ rafPending
    /\ ticks < MaxScriptTicks
    /\ \A due \in TimersDue : due >= now + gap
    /\ \E rnd \in DrawsFor(World, actions, now + gap) :
         \E w \in {animate(World, actions, collidableObjects, expression,
                            faceColor, displayText, now + gap, rnd)} :
            IF \E sc \in scripts : sc.pc = Spinning
            THEN \E sc \in {CHOOSE x \in scripts : x.pc = Spinning} :
                   \E s \in {spinLoop(w.state, sc, now + gap)} :
                      /\ WorldBecomes([w EXCEPT !.state = s])
                      /\ IF now + gap - sc.startTime < spinDuration
                         THEN UNCHANGED <<expression, scripts>>
                         ELSE /\ expression' = "happy"
                              /\ scripts' = (scripts \ {sc})
                                    \cup {[sc EXCEPT !.pc = 1,
                                                     !.due = now + gap + 500]}
            ELSE /\ WorldBecomes(w)
                 /\ UNCHANGED <<expression, scripts>>
    /\ now' = now + gap
    /\ ticks' = ticks + 1
    /\ rafPending' = TRUE
    /\ UNCHANGED <<collidableObjects, actions, faceColor, displayText,
                   displayTextTimeout, mounted, listeners, events, document,
                   isAnimating, finished, shown, refusals, pageVars>>

\* the drive before the first call: the head is turned aside, then let go
ScriptStart == << Leg({"headLeft"}, 100, 4), Leg({}, 100, 12) >>

\* the expression the page shows when a script is called
ScriptExpressions == {"neutral", "sad"}

InitScript ==
    /\ \E w \in {Drive(MountedWorld, ScriptStart, 1)} :
          /\ WorldIs(w)
          /\ now = w.lastTime
    /\ expression \in ScriptExpressions
    /\ actions = NoActions
    /\ collidableObjects = SceneObjects
    /\ faceColor = "#00ffff"
    /\ displayText = NoText
    /\ displayTextTimeout = NoTimer
    /\ mounted = TRUE
    /\ rafPending = TRUE
    /\ listeners = TRUE
    /\ ticks = 0
    /\ events = 0
    /\ PageIsFresh

NextScript ==
    \/ doWave
    \/ doSpin
    \/ doTakePhoto
    \/ doSayHello
    \/ \E sc \in scripts : WaveTimer(sc)
    \/ \E sc \in scripts : SpinTimer(sc)
    \/ \E sc \in scripts : PhotoTimer(sc)
    \/ \E sc \in scripts : HelloTimer(sc)
    \/ DisplayTextTimer
    \/ \E gap \in ScriptGaps : ScriptFrame(gap)

SpecScript == InitScript /\ [][NextScript]_vars


------------------------------------------------------------------------------
(* Properties of the scripted animations                                   *)

\* a step in which doWave, doSpin, doTakePhoto or doSayHello is called
ScriptCalled == events' # events \/ refusals' # refusals

\* C15: at most one scripted animation is in progress at any time, and a
\* call made while one is running returns at once: it starts nothing and
\* leaves head yaw, heading, expression and display text as they were
C15_OneAtATime ==
    /\ [](Cardinality(scripts) <= 1 /\ (isAnimating <=> scripts # {}))
    /\ [][(scripts # {} /\ ScriptCalled) =>
            /\ scripts' = scripts
            /\ events' = events
            /\ state'.headRotY = state.headRotY
            /\ state'.rotation = state.rotation
            /\ expression' = expression
            /\ displayText' = displayText]_vars

\* a call was turned away between two timer callbacks of a running script
C15_Witness ==
    /\ refusals = 1
    /\ \E sc \in scripts : sc.pc > 1
    /\ isAnimating


\* C16: when a scripted animation finishes, head yaw, expression id and
\* display text are what they were immediately before it started
C16_Restored ==
    finished # NoScript => finished.after = finished.before

\* what is drawn over the pixels of a canvas row
Layers(canvas, y) == {canvas.rows[y].over[i] : i \in DOMAIN canvas.rows[y].over}

\* C19: a camera capture overwrites every row of both destination images:
\* row y holds row 359 - y of the view rendered at this tick, and nothing of
\* an earlier capture or of the take-photo flash is left on it
C19_CaptureOverwrites ==
    [][(ticks' # ticks /\ frame'.captured) =>
          \A y \in Rows :
             /\ povCanvas'.rows[y].at = frame'.time
             /\ povCanvas'.rows[y].src = 359 - y
             /\ "flash" \notin Layers(povCanvas', y)
             /\ secCamCanvas'.rows[y].at = frame'.time
             /\ secCamCanvas'.rows[y].src = 359 - y]_vars

\* doTakePhoto flashed the POV canvas and a later tick has captured over it
C19_Witness ==
    /\ \E sc \in scripts :
          /\ sc.name = "doTakePhoto"
          /\ sc.flashed
          /\ sc.pc = 3
          /\ frame.time > sc.due - 1500
    /\ frame.captured
    /\ \A y \in Rows : povCanvas.rows[y].at = frame.time


-----------------------------------------------------------------------------
(* Further properties of the collision resolver                            *)

\* the object pass with every obstacle tested against, and pushing, the
\* point as the earlier obstacles left it
RECURSIVE DisplacedInTurn(_, _, _)
DisplacedInTurn(objs, i, res) ==
    IF i > Len(objs) THEN res
    ELSE DisplacedInTurn(objs, i + 1, PushOut(objs[i], res.x, res.z, res))

\* C21: overlapping obstacles are resolved by sequential displacement in
\* registration order: the object pass returns what testing and pushing
\* each obstacle from the already displaced point returns
C21_Sequential ==
    checkObjectCollision(collidableObjects, proposed.x, proposed.z)
        = DisplacedInTurn(collidableObjects, 1,
                          [x |-> proposed.x, z |-> proposed.z, collision |-> FALSE])


\* the registry without its k-th entry
Without(objs, k) == SubSeq(objs, 1, k - 1) \o SubSeq(objs, k + 1, Len(objs))

\* the circular entries whose centre the point is within 0.001 of
OnCentre(objs, px, pz) ==
    { k \in Circular(objs) :
        (px - objs[k].x) * (px - objs[k].x) + (pz - objs[k].z) * (pz - objs[k].z) <= 1 }

\* C23: an obstacle whose centre the proposed point is within 0.001 of
\* neither pushes nor sets the collision flag: the resolver answers as it
\* does for the registry without that obstacle
C23_CentreIgnored ==
    \A k \in OnCentre(collidableObjects, proposed.x, proposed.z) :
        resolved = resolveCollisions(Without(collidableObjects, k),
                                     proposed.x, proposed.z)

\* the proposed point is the centre of the first cone, or 0.001 beside it:
\* that cone does nothing, the second cone pushes
C23_Witness ==
    /\ collidableObjects = SceneObjects
    /\ 15 \in OnCentre(collidableObjects, proposed.x, proposed.z)
    /\ resolved.collision
    /\ resolved = resolveCollisions(<<SceneObjects[16]>>, proposed.x, proposed.z)

-----------------------------------------------------------------------------
(* Further properties of the mounted scene (Spec)                          *)

\* the distance between the robot's positions before and after a step
Travelled ==
    Sqrt((state'.x - state.x) * (state'.x - state.x)
         + (state'.z - state.z) * (state'.z - state.z))

\* C22: each step turns the wheels by the distance the robot actually
\* travelled over the wheel radius (up to fixed-point rounding); a step that
\* leaves the robot's position unchanged leaves the wheel spin angle unchanged
C22_WheelFollowsTravel ==
    [][ticks' # ticks =>
          /\ Abs(Mul(Abs(state'.wheelRotation - state.wheelRotation),
                     PHYSICS.wheelRadius) - Travelled) <= 2 * Slack
          /\ (state'.x = state.x /\ state'.z = state.z) =>
                 state'.wheelRotation = state.wheelRotation]_vars


\* C26: after every integrator step the robot is at least 0.6 + radius
\* from the centre of every circular obstacle of the scene (up to
\* fixed-point rounding)
C26_OutsideObstacles ==
    ticks > 0 =>
        \A k \in Circular(collidableObjects) :
            LET obj   == collidableObjects[k]
                reach == 600 + obj.radius - Slack
            IN (state.x - obj.x) * (state.x - obj.x)
               + (state.z - obj.z) * (state.z - obj.z) >= reach * reach

\* C24: in a tick where the robot is moving (|velocity| > 0.1 or
\* |angularVelocity| > 0.3) or a head flag is set, the idle animator adds
\* nothing to the head yaw and the body height the integrator has set
C24_IdleYields ==
    [][(/\ ticks' # ticks
        /\ \/ Abs(state'.velocity) > 100
           \/ Abs(state'.angularVelocity) > 300
           \/ actions.headLeft
           \/ actions.headRight) =>
          /\ graph'.headRotationY = state'.headRotY
          /\ graph'.bodyY = 800 + state'.suspensionOffset]_vars


\* C27: in a state where no input flag is set and the linear and the
\* angular velocity are both 0, a tick of the loop leaves the robot's x, z
\* and heading as they were and its resolveCollisions call reports no
\* collision.
C27_RestStays ==
    [][(/\ ticks' # ticks
        /\ actions = NoActions
        /\ state.velocity = 0
        /\ state.angularVelocity = 0) =>
          /\ state'.x = state.x
          /\ state'.z = state.z
          /\ state'.rotation = state.rotation
          /\ ~resolved'.collision]_vars

\* C28: at the end of every tick the head yaw in the scene graph
\* (headGroup.rotation.y) lies within headMaxRotation of the centre, the
\* idle look offset updateIdleAnimations adds to headRotY included.
C28_HeadYawWithinStops ==
    ticks > 0 => Abs(graph.headRotationY) <= PHYSICS.headMaxRotation + Slack

-----------------------------------------------------------------------------
(* The page's vision button and its speech                                 *)

MaxVisionCalls == 2

\* the methods of the handle RobotScene hands to the page through robotRef
RobotCommandNames == {"doWave", "doSpin", "doTakePhoto", "doSayHello",
                      "showTextOnFace"}

MovementCommands == {"forward", "backward", "left", "right", "stop"}

\* what /api/robot-vision can answer: the request or the parsing of its body
\* fails, an error, or a command (or "null") with a param (0: null) and
\* thoughts ("": none)
VisionAnswers ==
    { [kind |-> "rejected"], [kind |-> "error"] }
    \cup [kind : {"data"}, command : MovementCommands \cup {"null"},
          param : {0, 3}, thoughts : {"", "A crate ahead"}]

\* the method the switch of handleWhatDoYouSee calls for a command
MethodFor(command) ==
    CASE command = "forward"  -> "moveForward"
      [] command = "backward" -> "moveBackward"
      [] command = "left"     -> "turnLeft"
      [] command = "right"    -> "turnRight"
      [] command = "stop"     -> "stop"
      [] OTHER                -> "none"

\* data.param ? data.param * 100 : 500
DurationFor(param) == IF param # 0 THEN param * 100 ELSE 500

\* data.thoughts || 'No response from vision AI'
ThoughtsOf(ans) == IF ans.thoughts # "" THEN ans.thoughts
                   ELSE "No response from vision AI"

\* what the catch block of handleWhatDoYouSee leaves in visionResponse
VisionFailed == [command |-> "null", param |-> 0,
                 thoughts |-> "Failed to analyze image. Please try again."]

\* speak(text) called from a closure that saw isSpeaking as saw: up to its
\* first await
Speak(text, saw) ==
    IF text = "" \/ saw
    THEN UNCHANGED <<isSpeaking, speech>>
    ELSE /\ isSpeaking' = TRUE
         /\ speech' = "fetching"

\* handleWhatDoYouSee up to its first await (the button is disabled while
\* visionLoading)
handleWhatDoYouSee ==
    /\ ~visionLoading
    /\ vision.pc # "fetching"
    /\ events < MaxVisionCalls
    /\ events' = events + 1
    /\ driven' = NoDrive
    /\ IF "robot-pov-canvas" \notin document
       THEN /\ visionResponse' = [command |-> "null", param |-> 0,
                                  thoughts |-> "Error: Robot camera not available"]
            /\ vision' = [pc |-> "idle"]
            /\ UNCHANGED visionLoading
       ELSE /\ visionLoading' = TRUE
            /\ vision' = [pc |-> "fetching", isSpeaking |-> isSpeaking]
            /\ UNCHANGED visionResponse
    /\ UNCHANGED <<collidableObjects, robotVars, actions, faceVars, loopVars,
                   mounted, rafPending, listeners, ticks, cameraVars, scriptVars,
                   isSpeaking, speech, commandTimeout>>

\* handleWhatDoYouSee resumed with the answer: the response is stored, the
\* thoughts are spoken, the command is executed through robotRef (a method
\* the handle does not have throws into the catch block); finally
VisionAnswered(ans) ==
    /\ vision.pc = "fetching"
    /\ vision' = [pc |-> "done", answer |-> ans]
    /\ visionLoading' = FALSE
    /\ IF ans.kind = "rejected"
       THEN /\ visionResponse' = VisionFailed
            /\ UNCHANGED <<isSpeaking, speech, driven>>
       ELSE IF ans.kind = "error"
       THEN /\ visionResponse' = [command |-> "null", param |-> 0,
                                  thoughts |-> "Error: API error"]
            /\ UNCHANGED <<isSpeaking, speech, driven>>
       ELSE /\ Speak(ThoughtsOf(ans), vision.isSpeaking)
            /\ IF ans.command = "null" \/ ~mounted \/ MethodFor(ans.command) = "none"
               THEN /\ visionResponse' = [command |-> ans.command, param |-> ans.param,
                                          thoughts |-> ThoughtsOf(ans)]
                    /\ UNCHANGED driven
               ELSE IF MethodFor(ans.command) \in RobotCommandNames
               THEN /\ visionResponse' = [command |-> ans.command, param |-> ans.param,
                                          thoughts |-> ThoughtsOf(ans)]
                    /\ driven' = [method |-> MethodFor(ans.command),
                                  duration |-> DurationFor(ans.param)]
               ELSE /\ visionResponse' = VisionFailed
                    /\ UNCHANGED driven
    /\ UNCHANGED <<collidableObjects, robotVars, actions, faceVars, loopVars,
                   mounted, rafPending, listeners, ticks, events, cameraVars,
                   scriptVars, commandTimeout>>

\* how the request of speak() and the start of the playback can go
TtsOutcomes == {"rejected", "notOk", "playRejected", "playing"}

\* speak() resumed: the request threw, answered with a status that is not
\* OK, or answered and audio.play() was rejected or resolved
TtsAnswered(outcome) ==
    /\ speech = "fetching"
    /\ IF outcome = "notOk"
       THEN /\ speech' = "idle"
            /\ UNCHANGED isSpeaking
       ELSE IF outcome = "playing"
       THEN /\ speech' = "playing"
            /\ UNCHANGED isSpeaking
       ELSE /\ speech' = "idle"
            /\ isSpeaking' = FALSE
    /\ UNCHANGED <<collidableObjects, robotVars, actions, faceVars, loopVars,
                   mounted, rafPending, listeners, ticks, events, cameraVars,
                   scriptVars, visionResponse, visionLoading, vision, driven,
                   commandTimeout>>

\* audio.onended or audio.onerror
PlaybackOver ==
    /\ speech = "playing"
    /\ speech' = "idle"
    /\ isSpeaking' = FALSE
    /\ UNCHANGED <<collidableObjects, robotVars, actions, faceVars, loopVars,
                   mounted, rafPending, listeners, ticks, events, cameraVars,
                   scriptVars, visionResponse, visionLoading, vision, driven,
                   commandTimeout>>

InitVision ==
    /\ WorldIs(MountedWorld)
    /\ now = MountedWorld.lastTime
    /\ actions = NoActions
    /\ collidableObjects = SceneObjects
    /\ expression = "neutral"
    /\ faceColor = "#00ffff"
    /\ displayText = NoText
    /\ displayTextTimeout = NoTimer
    /\ mounted = TRUE
    /\ rafPending = TRUE
    /\ listeners = TRUE
    /\ ticks = 0
    /\ events = 0
    /\ PageIsFresh

NextVision ==
    \/ handleWhatDoYouSee
    \/ \E ans \in VisionAnswers : VisionAnswered(ans)
    \/ \E outcome \in TtsOutcomes : TtsAnswered(outcome)
    \/ PlaybackOver

SpecVision == InitVision /\ [][NextVision]_vars

\* C25: when the vision API has answered with a movement command, the robot
\* has been driven through the handle for param * 100 ms (500 ms without a
\* param) and visionResponse holds the command, param and thoughts returned
C25_VisionDrives ==
    (/\ vision.pc = "done"
     /\ vision.answer.kind = "data"
     /\ vision.answer.command \in MovementCommands) =>
        /\ driven = [method |-> MethodFor(vision.answer.command),
                     duration |-> DurationFor(vision.answer.param)]
        /\ visionResponse = [command |-> vision.answer.command,
                             param |-> vision.answer.param,
                             thoughts |-> ThoughtsOf(vision.answer)]

\* C30: isSpeaking is true only while a speak attempt is under way (its
\* request in flight or its audio playing): every way out of an attempt
\* has reset it, so no later speak call is turned away for good
C30_SpeakingEnds ==
    isSpeaking => speech \in {"fetching", "playing"}

-----------------------------------------------------------------------------
(* The page's voice commands                                               *)

MaxVoiceCommands == 2

\* the commands the voice agent's client tools hand to onCommand
VoiceCommands == {"forward", "backward", "turnLeft", "turnRight", "stop"}

\* the durations an agent passes to a tool, in ms (0: none given)
VoiceDurations == {0, 300, 1500}

\* how far the clock is followed at a time while a stop timer is pending
VoiceSteps == {100, 500}

MovementFlags == {"forward", "backward", "turnLeft", "turnRight"}

\* parameters.duration || 1000 (|| 500 for the turns); robot_stop passes none
ToolDuration(command, duration) ==
    IF command = "stop" THEN 0
    ELSE IF duration # 0 THEN duration
    ELSE IF command \in {"turnLeft", "turnRight"} THEN 500 ELSE 1000

\* duration || (command.includes('turn') ? 500 : 1000)
stopDuration(command, duration) ==
    IF duration # 0 THEN duration
    ELSE IF command \in {"turnLeft", "turnRight"} THEN 500 ELSE 1000

\* window.robotActions is setAction while the scene is mounted
setRobotAction(a, action, value) ==
    IF mounted THEN [a EXCEPT ![action] = value] ELSE a

\* the four setRobotAction(..., false) calls in a row
StopAll(a) ==
    setRobotAction(setRobotAction(setRobotAction(setRobotAction(
        a, "forward", FALSE), "backward", FALSE), "turnLeft", FALSE),
        "turnRight", FALSE)

ClearPreviousTimerOnly(a, ref) ==
    a

\* if (commandTimeoutRef.current) { clearTimeout(...); stop all actions }
ClearPrevious(a, ref) ==
    IF ref.set THEN StopAll(a) ELSE a

handleVoiceCommand(command, duration) ==
    /\ events < MaxVoiceCommands
    /\ events' = events + 1
    /\ \E a \in {ClearPrevious(actions, commandTimeout)} :
          IF command = "stop"
          THEN /\ actions' = StopAll(a)
               /\ commandTimeout' =
                      IF commandTimeout.timer = "pending"
                      THEN [commandTimeout EXCEPT !.timer = "cleared",
                                                  !.cancelled = TRUE]
                      ELSE [commandTimeout EXCEPT !.cancelled = FALSE]
          ELSE /\ actions' = setRobotAction(a, command, TRUE)
               /\ commandTimeout' =
                      [command |-> command,
                       due |-> now + stopDuration(command, duration),
                       set |-> TRUE,
                       timer |-> "pending",
                       cancelled |-> commandTimeout.timer = "pending"]
    /\ UNCHANGED <<collidableObjects, robotVars, faceVars, loopVars,
                   mounted, rafPending, listeners, ticks, cameraVars, scriptVars,
                   visionResponse, visionLoading, vision, driven, isSpeaking,
                   speech>>

\* the stop timer runs: setRobotAction(command, false)
CommandTimer ==
    /\ commandTimeout.timer = "pending"
    /\ now >= commandTimeout.due
    /\ actions' = setRobotAction(actions, commandTimeout.command, FALSE)
    /\ commandTimeout' = [commandTimeout EXCEPT !.timer = "ran"]
    /\ UNCHANGED <<collidableObjects, robotVars, faceVars, loopVars,
                   mounted, rafPending, listeners, ticks, events, cameraVars,
                   scriptVars, visionResponse, visionLoading, vision, driven,
                   isSpeaking, speech>>

\* the clock moves on, up to the time the pending timer is due to run
Elapse(ms) ==
    /\ commandTimeout.timer = "pending"
    /\ now + ms <= commandTimeout.due
    /\ now' = now + ms
    /\ UNCHANGED <<collidableObjects, robotVars, actions, faceVars, lastTime,
                   lastPovRenderTime, lastFaceDrawTime, frame,
                   mounted, rafPending, listeners, ticks, events, cameraVars,
                   scriptVars, pageVars>>

InitVoice ==
    /\ WorldIs(MountedWorld)
    /\ now = MountedWorld.lastTime
    /\ actions = NoActions
    /\ collidableObjects = SceneObjects
    /\ expression = "neutral"
    /\ faceColor = "#00ffff"
    /\ displayText = NoText
    /\ displayTextTimeout = NoTimer
    /\ mounted = TRUE
    /\ rafPending = TRUE
    /\ listeners = TRUE
    /\ ticks = 0
    /\ events = 0
    /\ PageIsFresh

NextVoice ==
    \/ \E command \in VoiceCommands, duration \in VoiceDurations :
          handleVoiceCommand(command, ToolDuration(command, duration))
    \/ CommandTimer
    \/ \E ms \in VoiceSteps : Elapse(ms)

SpecVoice == InitVoice /\ [][NextVoice]_vars

\* C29: under voice commands alone, while a command's stop timer is pending
\* its flag is the only movement flag set and its duration has not run out;
\* a newer command has cleared the flags and the timer of the one before,
\* 'stop' clears all four, and once the last command's timer has run (or
\* 'stop' was the last command) all four movement flags are false.
C29_VoiceFlagsClear ==
    /\ commandTimeout.timer = "pending" =>
          /\ now <= commandTimeout.due
          /\ \A k \in MovementFlags : actions[k] <=> (k = commandTimeout.command)
    /\ commandTimeout.timer # "pending" =>
          \A k \in MovementFlags : ~actions[k]

\* the second command stopped the first one's timer before it ran, and its
\* own timer has run at its due time
C29_Witness ==
    /\ events = 2
    /\ commandTimeout.cancelled
    /\ commandTimeout.timer = "ran"
    /\ commandTimeout.command = "turnLeft"
    /\ now = commandTimeout.due
    /\ actions = NoActions

====
